---------------------------- MODULE Spec2Model ----------------------------
(***************************************************************************)
(* Model of the DHT11 driver (components/dht11/dht11.c), of the polling    *)
(* task dht11_task and the display loop of app_main (main/main.c), of the  *)
(* WebSocket handler handle_ws_req (websocket_server.c) and of the LED     *)
(* state it drives (led_control.c).                                        *)
(*                                                                         *)
(* Temperature and humidity are floats with one decimal in the source;     *)
(* they are modelled as integers counting tenths (23.5 C is 235), so       *)
(* byte0 + byte1/10.0 is 10*byte0 + byte1 and the bounds 100.0 / 50.0 are  *)
(* 1000 / 500.  The conversion to float is monotone and 100.0 and 50.0 are *)
(* exactly representable, so the comparisons agree with the source.        *)
(*                                                                         *)
(* The line is the environment.  During one wait the line is described by  *)
(* d, the index of the first sample that reads the awaited level; during   *)
(* one measurement of a data pulse by h, the number of consecutive         *)
(* samples that read high.                                                 *)
(***************************************************************************)
EXTENDS Integers, Sequences, FiniteSets, TLC

(* ---------------- bounds of the model ---------------- *)
MaxReads == 2
MaxBudget == 3
MaxPulse == 120
MaxLedCalls == 4
MaxWifiEvents == 8
MaxSockets == 7
MaxIntervals == 2
(* pixels requested one by one between two oled_clear *)
MaxPixels == 1

(* ---------------- program constants ---------------- *)
HANDSHAKE_TIMEOUT == 100
BIT_TIMEOUT == 70
HIGH_CAP == 100
BIT_THRESHOLD == 35
START_HOLD_US == 18000
STABILIZE_US == 200000
SETTLE_US == 40
POLL_ATTEMPTS == 3
STARTUP_DELAY_MS == 2000
ERROR_DELAY_MS == 1000
LOOP_DELAY_MS == 3000
FRAME_BYTES == 5
BITS_PER_BYTE == 8
FRAME_BITS == FRAME_BYTES * BITS_PER_BYTE
TENTHS == 10
HUMIDITY_LIMIT == 100
TEMPERATURE_LIMIT == 50
HUMIDITY_MAX == TENTHS * HUMIDITY_LIMIT
TEMPERATURE_MAX == TENTHS * TEMPERATURE_LIMIT

ESP_OK == "ESP_OK"
ESP_ERR_TIMEOUT == "ESP_ERR_TIMEOUT"
ESP_ERR_INVALID_RESPONSE == "ESP_ERR_INVALID_RESPONSE"
ESP_ERR_INVALID_CRC == "ESP_ERR_INVALID_CRC"
NO_RESULT == "none"

GPIO_MODE_INPUT == "INPUT"
GPIO_MODE_OUTPUT_OD == "OUTPUT_OD"
GPIO_MODE_INPUT_OUTPUT_OD == "INPUT_OUTPUT_OD"
GPIO_MODE_RESET == "RESET"

(* ---------------- the environment: what the sensor sends ---------------- *)
(* Frames the simulated sensor can transmit:                               *)
(*  1 valid, in range (50.0 %, 23.5 C)     2 the same with checksum + 1    *)
(*  3 valid, at both bounds (100.0, 50.0)  4 valid, humidity 100.1         *)
(*  5 valid, temperature 50.1             6 valid with a wrapping sum,     *)
(*  in range (99.5, 49.5)   7 wrong checksum, data out of range            *)
Frames ==
    << <<50, 0, 23, 5, 78>>,
       <<50, 0, 23, 5, 79>>,
       <<100, 0, 50, 0, 150>>,
       <<100, 1, 20, 0, 121>>,
       <<40, 0, 50, 1, 91>>,
       <<74, 255, 24, 255, 96>>,
       <<255, 255, 255, 255, 0>> >>

NoFrame == 0
FrameIds == 1..Len(Frames)

(* the frames of the sensor in the model of the whole firmware *)
FirmwareFrames == {1, 2, 3, 4}

(* bit k (0..39) of a frame, most significant bit of byte 0 first *)
TxBit(f, k) ==
    (Frames[f][(k \div BITS_PER_BYTE) + 1]
        \div (2 ^ (BITS_PER_BYTE - 1 - (k % BITS_PER_BYTE)))) % 2

(* widths (in samples) of the high pulse the sensor emits for a bit:       *)
(* nominally 26-28 for 0 and 70 for 1, with jitter up to the threshold,    *)
(* and a line that stays high beyond the cap                               *)
PulseWidths(b) == IF b = 0 THEN {0, 26, 35} ELSE {36, 70, 100, 120}

(* first sample at the awaited level, per kind of wait; timeout + 1 stands *)
(* for every line that does not reach the level inside the window          *)
HandshakeDelays == {0, HANDSHAKE_TIMEOUT, HANDSHAKE_TIMEOUT + 1}
RiseDelays == {0, BIT_TIMEOUT, BIT_TIMEOUT + 1}
FallDelays == {BIT_TIMEOUT, BIT_TIMEOUT + 1}

(* no sample taken yet *)
NoLevel == 2

(* the timeouts wait_for_state is called with (70, 100) and small ones *)
WaitTimeouts == {0, 1, BIT_TIMEOUT, HANDSHAKE_TIMEOUT}

(* if (count >= timeout) return -1 *)
WaitExpired_Strict(count, timeout) == count > timeout
WaitExpired(count, timeout) == count >= timeout

(* level read by the n-th sample of a wait on a line that first reads      *)
(* `state` at sample d                                                     *)
LineAt(d, state, n) == IF n < d THEN 1 - state ELSE state

(* ---------------- pure functions of dht11.c ---------------- *)
RECURSIVE wait_loop(_, _, _, _)
wait_loop(d, state, timeout, count) ==
    IF LineAt(d, state, count) # state
    THEN IF count >= timeout
         THEN 0 - 1
         ELSE wait_loop(d, state, timeout, count + 1)
    ELSE count

wait_for_state(d, state, timeout) == wait_loop(d, state, timeout, 0)

RECURSIVE measure_loop(_, _)
measure_loop(h, high_time) ==
    IF high_time < h /\ high_time < HIGH_CAP
    THEN measure_loop(h, high_time + 1)
    ELSE high_time

measure_high(h) == measure_loop(h, 0)

(* the calls of dht11_read, tabulated over the line behaviours above *)
HandshakeWait == [d \in HandshakeDelays |->
                    [lvl \in {0, 1} |-> wait_for_state(d, lvl, HANDSHAKE_TIMEOUT)]]
RiseWait == [d \in RiseDelays |-> wait_for_state(d, 1, BIT_TIMEOUT)]
FallWait == [d \in FallDelays |-> wait_for_state(d, 0, BIT_TIMEOUT)]
HighTime == [h \in PulseWidths(0) \cup PulseWidths(1) |-> measure_high(h)]

DecodeBit_BelowCap(t) == IF t > BIT_THRESHOLD /\ t < HIGH_CAP THEN 1 ELSE 0
DecodeBit_Inclusive(t) == IF t >= BIT_THRESHOLD THEN 1 ELSE 0
DecodeBit(t) == IF t > BIT_THRESHOLD THEN 1 ELSE 0

(* byte | (1 << p) *)
OrBit(byte, p) == IF (byte \div (2 ^ p)) % 2 = 1 THEN byte ELSE byte + 2 ^ p

StoreBit_LsbFirst(data, k, b) ==
    IF b = 1
    THEN [data EXCEPT ![(k \div BITS_PER_BYTE) + 1] =
                         OrBit(@, k % BITS_PER_BYTE)]
    ELSE data

(* received_data[i] |= (1 << (7 - j)) when the bit is 1; i, j from k *)
StoreBit(data, k, b) ==
    IF b = 1
    THEN [data EXCEPT ![(k \div BITS_PER_BYTE) + 1] =
                         OrBit(@, 7 - (k % BITS_PER_BYTE))]
    ELSE data

Checksum(data) == (data[1] + data[2] + data[3] + data[4]) % 256
ChecksumOk_AtMost(data) == Checksum(data) <= data[5]
ChecksumOk(data) == Checksum(data) = data[5]
HumidityOf_Swapped(data) == data[1] + TENTHS * data[2]
HumidityOf(data) == TENTHS * data[1] + data[2]
TemperatureOf_IntegerDivision(data) ==
    TENTHS * data[3] + TENTHS * (data[4] \div 10)
TemperatureOf(data) == TENTHS * data[3] + data[4]
OutOfRange_Inclusive(hum, temp) == hum >= HUMIDITY_MAX \/ temp >= TEMPERATURE_MAX
OutOfRange(hum, temp) == hum > HUMIDITY_MAX \/ temp > TEMPERATURE_MAX

(* the loop test of the last-bit tolerance: j < 7 *)
FallTimeoutFatal(k) == (k % BITS_PER_BYTE) < 7

(* the condition of the retry loop *)
MayAttempt_Inclusive(counter, budget) == counter <= budget
MayAttempt_AtLeastOnce(counter, budget) == counter = 0 \/ counter < budget
MayAttempt(counter, budget) == counter < budget

(* the test after the retry loop *)
Exhausted(counter, budget) == counter >= budget

(* the esp_err_t of each return statement of dht11_read, by source line *)
ReturnCode_BitAsResponse(line) ==
    CASE line = 141 -> ESP_ERR_TIMEOUT
      [] line = 153 -> ESP_ERR_INVALID_RESPONSE
      [] line = 174 -> ESP_ERR_INVALID_RESPONSE
      [] line = 194 -> ESP_ERR_INVALID_RESPONSE
      [] line = 198 -> ESP_OK
      [] OTHER -> ESP_ERR_INVALID_CRC
ReturnCode(line) ==
    CASE line = 141 -> ESP_ERR_TIMEOUT
      [] line = 153 -> ESP_ERR_TIMEOUT
      [] line = 174 -> ESP_ERR_TIMEOUT
      [] line = 194 -> ESP_ERR_INVALID_RESPONSE
      [] line = 198 -> ESP_OK
      [] OTHER -> ESP_ERR_INVALID_CRC

ZeroFrame == <<0, 0, 0, 0, 0>>

(* the stack slot of received_data outside a call of dht11_read holds      *)
(* leftovers; all ones stands for them                                     *)
StaleStack == <<255, 255, 255, 255, 255>>

(* uint8_t received_data[5] = {0} *)
ClearedBuffer_Skipped(old) == old
ClearedBuffer(old) == ZeroFrame

ESP_ERR_INVALID_ARG == "ESP_ERR_INVALID_ARG"

(* ---------------- WebSocket frames and commands ---------------- *)
ESP_FAIL == "ESP_FAIL"
ESP_ERR_NO_MEM == "ESP_ERR_NO_MEM"
HTTPD_WS_TYPE_TEXT == "TEXT"
HTTPD_WS_TYPE_BINARY == "BINARY"

(* payloads are sequences of characters; NUL is the zero byte *)
NUL == "NUL"
CMD_ON == <<"O", "N">>
CMD_OFF == <<"O", "F", "F">>
CMD_TOGGLE == <<"T", "O", "G", "G", "L", "E">>
CMD_STATUS == <<"S", "T", "A", "T", "U", "S">>
CMD_GET_DHT == <<"G", "E", "T", "_", "D", "H", "T">>

TextFrame(payload) == [type |-> HTTPD_WS_TYPE_TEXT, payload |-> payload]
BinaryFrame(payload) == [type |-> HTTPD_WS_TYPE_BINARY, payload |-> payload]
NoWsFrame == [type |-> "none", payload |-> <<>>]

(* what clients send: the commands, near misses of them, a frame with a    *)
(* zero byte inside, an empty text frame and binary frames                 *)
WsPayloads ==
    {CMD_ON, CMD_OFF, CMD_TOGGLE, CMD_STATUS, CMD_GET_DHT,
     <<"o", "n">>, <<"O", "n">>, <<"O">>, <<"O", "N", " ">>, <<" ", "O", "N">>,
     <<"O", "N", "N">>, <<"o", "f", "f">>, <<"T", "o", "g", "g", "l", "e">>,
     <<"G", "E", "T", "_", "D", "H", "T", "1", "1">>,
     <<"H", "E", "L", "L", "O">>,
     <<"O", "N", NUL, "X">>, <<"O", "F", "F", NUL>>, <<NUL>>}
WsFrames ==
    {TextFrame(p) : p \in WsPayloads} \cup
    {TextFrame(<<>>), BinaryFrame(CMD_ON), BinaryFrame(<<>>)}

(* a buffer read as a C string: the characters before the first NUL *)
CString(buf) ==
    LET nuls == {i \in 1..Len(buf) : buf[i] = NUL} IN
      IF nuls = {}
      THEN buf
      ELSE SubSeq(buf, 1, (CHOOSE i \in nuls : \A j \in nuls : i <= j) - 1)

(* strcmp(a, b) == 0 *)
StrEq(a, b) == CString(a) = CString(b)

(* the branch of the if / else-if chain of lines 141-180 taken for buf *)
Command(buf) ==
    CASE StrEq(buf, CMD_ON) -> "ON"
      [] StrEq(buf, CMD_OFF) -> "OFF"
      [] StrEq(buf, CMD_TOGGLE) -> "TOGGLE"
      [] StrEq(buf, CMD_STATUS) -> "STATUS"
      [] StrEq(buf, CMD_GET_DHT) -> "GET_DHT"
      [] OTHER -> "unknown"

(* led_control_set_state, led_control_toggle: the new led_state and level *)
(* led_control_init: GPIO2 an output at level 0, led_state = false *)
led_control_init == [led_state |-> FALSE, led_gpio |-> 0]

led_control_set_state(state) ==
    [led_state |-> state, led_gpio |-> IF state THEN 1 ELSE 0]
led_control_toggle_StaleLevel(current) ==
    [led_state |-> ~current, led_gpio |-> IF current THEN 1 ELSE 0]
led_control_toggle(current) ==
    [led_state |-> ~current, led_gpio |-> IF ~current THEN 1 ELSE 0]

(* "%.1f" of a value held in tenths *)
FormatTenths(v) == ToString(v \div TENTHS) \o "." \o ToString(v % TENTHS)

(* snprintf(dht_response, 50, "DHT:%.1f:%.1f", temperature, humidity) *)
DhtResponse(temp, hum) ==
    "DHT:" \o FormatTenths(temp) \o ":" \o FormatTenths(hum)

(* estado = led_state ? "ENCENDIDO" : "APAGADO"; "LED:%s" *)
LedResponse_Inverted(on) == IF on THEN "LED:APAGADO" ELSE "LED:ENCENDIDO"
LedResponse(on) == IF on THEN "LED:ENCENDIDO" ELSE "LED:APAGADO"

(* entries of the log of delays and start pulses of one call *)
(* ---------------- the web client (WebSocketController) ---------------- *)
maxReconnectAttempts == 5

(* readyState of a WebSocket; "null" is this.websocket before any socket *)
CONNECTING == "CONNECTING"
OPEN == "OPEN"
CLOSED == "CLOSED"

(* the commands of the buttons that the model clicks *)
ClientCommands == {"TOGGLE", "GET_DHT"}
NoCall == [command |-> "none", readyState |-> "none", sent |-> FALSE,
           reconnect |-> FALSE]

(* the controller after its constructor: connectWebSocket has created the  *)
(* first socket and the 3 s timeout of the constructor is pending          *)
NewController ==
    [websocket |-> CONNECTING,      \* readyState of this.websocket
     reconnectAttempts |-> 0,
     isAutoRefresh |-> FALSE,
     autoRefreshInterval |-> 0,     \* 0 is null, else the id of setInterval
     old_connecting |-> 0,          \* sockets this.websocket no longer holds,
     old_open |-> 0,                \*   still connecting / still open
     created |-> 1,                 \* new WebSocket calls so far
     since_open |-> 0,              \* new WebSocket calls since the last onopen
     reconnect_timeouts |-> 0,      \* pending setTimeout of handleReconnection
     status_timeouts |-> 0,         \* pending setTimeout of onopen
     startup_timeout |-> TRUE,      \* pending setTimeout of the constructor
     intervals |-> {},              \* ids of the active setInterval timers
     next_interval |-> 1,           \* the id the next setInterval returns
     ui_connected |-> "unset",      \* the last updateConnectionStatus
     last |-> NoCall]               \* the last sendCommand call

(* connectWebSocket: new WebSocket(wsUrl) is stored in this.websocket; the *)
(* socket held before is neither closed nor looked at                      *)
connectWebSocket(c) ==
    [c EXCEPT !.websocket = CONNECTING,
              !.old_connecting = @ + (IF c.websocket = CONNECTING THEN 1 ELSE 0),
              !.old_open = @ + (IF c.websocket = OPEN THEN 1 ELSE 0),
              !.created = @ + 1,
              !.since_open = @ + 1]

(* handleReconnection: one more delayed connectWebSocket while the counter *)
(* is below the maximum, else an alert                                     *)
handleReconnection(c) ==
    IF c.reconnectAttempts < maxReconnectAttempts
    THEN [c EXCEPT !.reconnectAttempts = @ + 1,
                   !.reconnect_timeouts = @ + 1]
    ELSE c

(* sendCommand: send on an open socket, else mark the page disconnected    *)
(* and connect                                                             *)
sendCommand_AnyState(c, command) ==
    [c EXCEPT !.last = [command |-> command, readyState |-> c.websocket,
                        sent |-> TRUE, reconnect |-> FALSE]]
sendCommand(c, command) ==
    IF c.websocket = OPEN
    THEN [c EXCEPT !.last = [command |-> command, readyState |-> c.websocket,
                             sent |-> TRUE, reconnect |-> FALSE]]
    ELSE connectWebSocket(
           [c EXCEPT !.ui_connected = "disconnected",
                     !.last = [command |-> command, readyState |-> c.websocket,
                               sent |-> FALSE, reconnect |-> TRUE]])

(* onopen of any socket *)
onopen(c) ==
    [c EXCEPT !.ui_connected = "connected",
              !.reconnectAttempts = 0,
              !.since_open = 0,
              !.status_timeouts = @ + 1]

(* onerror and onclose of any socket *)
onclose(c) == handleReconnection([c EXCEPT !.ui_connected = "disconnected"])

stopAutoRefresh(c) ==
    [c EXCEPT !.intervals = IF c.autoRefreshInterval # 0
                            THEN @ \ {c.autoRefreshInterval}
                            ELSE @,
              !.autoRefreshInterval = 0,
              !.isAutoRefresh = FALSE]

startAutoRefresh_NoStop(c) ==
    [c EXCEPT !.isAutoRefresh = TRUE,
              !.autoRefreshInterval = c.next_interval,
              !.intervals = @ \cup {c.next_interval},
              !.next_interval = @ + 1]
startAutoRefresh(c) ==
    LET s == stopAutoRefresh(c) IN
    [s EXCEPT !.isAutoRefresh = TRUE,
              !.autoRefreshInterval = s.next_interval,
              !.intervals = @ \cup {s.next_interval},
              !.next_interval = @ + 1]

toggleAutoRefresh(c) ==
    IF c.isAutoRefresh THEN stopAutoRefresh(c) ELSE startAutoRefresh(c)

(* operations on the pin, as dht11_read and hold_low issue them *)
SetLevel(v) == <<"gpio_set_level", v>>
SetDirection(mode) == <<"gpio_set_direction", mode>>
DelayUs(n) == <<"ets_delay_us", n>>
WaitOp(level, in_time) == <<"wait_for_state", level, in_time>>

(* hold_low: level 0, the hold, level 1, 40 us *)
hold_low_NoSettle(hold_time_us) ==
    <<SetLevel(0), DelayUs(hold_time_us), SetLevel(1)>>
hold_low(hold_time_us) ==
    <<SetLevel(0), DelayUs(hold_time_us), SetLevel(1), DelayUs(SETTLE_US)>>

(* gpio_set_direction(OUTPUT_OD); gpio_set_level(1): the cleanup of every  *)
(* timeout and of the end of the bit loops                                 *)
Cleanup_LevelFirst == <<SetLevel(1), SetDirection(GPIO_MODE_OUTPUT_OD)>>
Cleanup == <<SetDirection(GPIO_MODE_OUTPUT_OD), SetLevel(1)>>

DelayEvent == <<"ets_delay_us", STABILIZE_US>>
PulseEvent == <<"hold_low", START_HOLD_US>>

(* ---------------- state ---------------- *)
VARIABLES
    pc,                 \* position of dht11_task / dht11_read
    temperature,        \* g_dht11_sensor.temperature (tenths)
    humidity,           \* g_dht11_sensor.humidity (tenths)
    pin_dir,            \* direction of the sensor pin
    pin_level,          \* level last written to the sensor pin
    budget,             \* the attempt budget the caller passes
    connection_timeout, \* parameter of dht11_read
    timeout_counter,    \* local of dht11_read
    waited,             \* local of dht11_read
    received_data,      \* local of dht11_read
    bit,                \* i * 8 + j of the decode loops
    result,             \* value returned by dht11_read
    exit_line,          \* source line of the return statement taken
    success_count,      \* local of dht11_task
    error_count,        \* local of dht11_task
    events,             \* delays and start pulses of the current call
    entry_temperature,  \* temperature when the current call started
    entry_humidity,     \* humidity when the current call started
    tx,                 \* frame the sensor transmits in this call
    stuck_high,         \* the line never leaves high in this call
    sensor,             \* the frames the attached sensor can transmit
    delayed_ms,         \* vTaskDelay time of dht11_task since init / last read
    gpio_ret,           \* what gpio_config returned in dht11_init
    init_ret,           \* what dht11_init returned
    prev_tx,            \* frame of the previous call if it returned ESP_OK
    pin_ops,            \* pin operations of the call since its last attempt began
    ops_dir0,           \* pin direction when pin_ops was started
    led_state,          \* led_control.c: static bool led_state
    led_gpio,           \* level driven on GPIO2
    traffic,            \* the frames clients send on /ws
    ws_frame,           \* the frame of the request being handled
    ws_buf,             \* buf: the payload followed by the terminator
    ws_out,             \* frames passed to httpd_ws_send_frame, in order
    ws_ret,             \* what handle_ws_req returns
    ws_led_before,      \* led_state when the request arrived
    pulse_width,        \* a data pulse fed to the measuring loop alone
    high_time,          \* local of dht11_read: the measured high duration
    decoded,            \* the bit decoded from high_time
    slot_j,             \* j of a bit slot decoded alone
    slot_waited,        \* waited after the fall wait of that slot
    slot_exit,          \* how that slot leaves the loop body
    w_pc,               \* position of a wait_for_state call run alone
    w_state,            \* its argument state
    w_timeout,          \* its argument timeout
    w_count,            \* its local count
    w_ret,              \* its return value
    w_samples,          \* gpio_get_level calls it has made
    w_hits,             \* how many of them read state
    w_last,             \* the level its last sample read
    led_log,            \* the led_control calls made so far
    wifi_link,          \* the station: stopped, connecting, associated, connected, idle
    wifi_log,           \* the events wifi_event_handler was called with
    wifi_connects,      \* esp_wifi_connect calls made so far
    client,             \* the WebSocketController of the web page and its browser
    oled_buffer,        \* oled_buffer: the bits that are set, as <<index, bit>>
    oled_requests,      \* the (x, y) oled_draw_pixel was called with since oled_clear
    d_pc, d_temperature, d_humidity,      \* display loop of app_main
    ws_pc, ws_temperature, ws_humidity    \* GET_DHT branch of handle_ws_req

pollerVars == <<pc, temperature, humidity, pin_dir, pin_level, budget,
                connection_timeout, timeout_counter, waited, received_data,
                bit, result, exit_line, success_count, error_count, events,
                entry_temperature, entry_humidity, tx, stuck_high, sensor,
                delayed_ms, gpio_ret, init_ret, prev_tx, pin_ops, ops_dir0>>
displayVars == <<d_pc, d_temperature, d_humidity>>
wsLocals == <<ws_frame, ws_buf, ws_out, ws_ret, ws_led_before>>
ledVars == <<led_state, led_gpio>>
wsVars == <<ws_pc, ws_temperature, ws_humidity, wsLocals, ledVars, traffic>>
pulseVars == <<pulse_width, high_time, decoded>>
taskAux == <<delayed_ms, gpio_ret, init_ret, prev_tx>>
pinLog == <<pin_ops, ops_dir0>>
waitVars == <<w_pc, w_state, w_timeout, w_count, w_ret, w_samples, w_hits, w_last>>
slotVars == <<slot_j, slot_waited, slot_exit>>
wifiVars == <<wifi_link, wifi_log, wifi_connects>>
clientVars == <<client>>
oledVars == <<oled_buffer, oled_requests>>
extVars == <<wifiVars, clientVars, oledVars>>
unitVars == <<waitVars, slotVars, led_log, extVars>>
vars == <<pollerVars, displayVars, wsVars, pulseVars, unitVars>>

readLocals == <<connection_timeout, timeout_counter, waited, received_data,
                bit, exit_line, events, entry_temperature, entry_humidity,
                tx, stuck_high>>

InitCommon ==
    /\ pc = "task_start"
    /\ temperature = 0
    /\ humidity = 0
    /\ pin_dir = GPIO_MODE_RESET
    /\ pin_level = 0
    /\ connection_timeout = 0
    /\ timeout_counter = 0
    /\ waited = 0
    /\ received_data = StaleStack
    /\ bit = 0
    /\ result = NO_RESULT
    /\ delayed_ms = 0
    /\ gpio_ret = NO_RESULT
    /\ init_ret = NO_RESULT
    /\ prev_tx = NoFrame
    /\ pin_ops = <<>>
    /\ ops_dir0 = GPIO_MODE_RESET
    /\ pulse_width = 0
    /\ high_time = 0
    /\ decoded = 0
    /\ slot_j = 0
    /\ slot_waited = 0
    /\ slot_exit = NO_RESULT
    /\ w_pc = "idle"
    /\ w_state = 0
    /\ w_timeout = 0
    /\ w_count = 0
    /\ w_ret = 0
    /\ w_samples = 0
    /\ w_hits = 0
    /\ w_last = NoLevel
    /\ led_log = <<>>
    /\ wifi_link = "stopped"
    /\ wifi_log = <<>>
    /\ wifi_connects = 0
    /\ client = NewController
    /\ oled_buffer = {}
    /\ oled_requests = {}
    /\ exit_line = 0
    /\ success_count = 0
    /\ error_count = 0
    /\ events = <<>>
    /\ entry_temperature = 0
    /\ entry_humidity = 0
    /\ tx = NoFrame
    /\ stuck_high = FALSE
    /\ d_pc = "read_temperature"
    /\ d_temperature = 0
    /\ d_humidity = 0
    /\ ws_pc = "idle"
    /\ ws_temperature = 0
    /\ ws_humidity = 0
    /\ led_state = FALSE
    /\ led_gpio = 0
    /\ ws_frame = NoWsFrame
    /\ ws_buf = <<>>
    /\ ws_out = <<>>
    /\ ws_ret = NO_RESULT
    /\ ws_led_before = FALSE

(* the firmware: dht11_task reads with a budget of 3 *)
Init ==
    /\ InitCommon
    /\ budget = POLL_ATTEMPTS
    /\ sensor = FirmwareFrames
    /\ traffic = {TextFrame(CMD_GET_DHT)}

(* dht11_read as a public function: any attempt budget *)
InitRead ==
    /\ InitCommon
    /\ budget \in (0 - 1)..MaxBudget
    /\ sensor = FrameIds
    /\ traffic = {TextFrame(CMD_GET_DHT)}

(* the WebSocket handler alone, fed every modelled frame; no sensor read   *)
(* has happened                                                            *)
InitWs ==
    /\ InitCommon
    /\ budget = POLL_ATTEMPTS
    /\ sensor = FirmwareFrames
    /\ traffic = WsFrames

(* ---------------- dht11_task and dht11_init ---------------- *)
TaskInit_IgnoresFailure ==
    /\ pc = "task_start"
    /\ \E ret \in {ESP_OK, ESP_ERR_INVALID_ARG} :
         /\ gpio_ret' = ret
         /\ init_ret' = ret
         /\ IF ret = ESP_OK
            THEN /\ pin_dir' = GPIO_MODE_INPUT_OUTPUT_OD
                 /\ pin_level' = 1
            ELSE UNCHANGED <<pin_dir, pin_level>>
         /\ pc' = "startup_delay"
    /\ delayed_ms' = 0
    /\ UNCHANGED <<temperature, humidity, budget, sensor, result, success_count,
                   error_count, readLocals, displayVars, wsVars, pulseVars, unitVars,
                   prev_tx, pinLog>>

(* dht11_task calls dht11_init: gpio_config, then the line is set high;    *)
(* on failure the task deletes itself                                      *)
TaskInit ==
    /\ pc = "task_start"
    /\ \E ret \in {ESP_OK, ESP_ERR_INVALID_ARG} :
         /\ gpio_ret' = ret
         /\ init_ret' = ret
         /\ IF ret = ESP_OK
            THEN /\ pin_dir' = GPIO_MODE_INPUT_OUTPUT_OD
                 /\ pin_level' = 1
                 /\ pc' = "startup_delay"
            ELSE /\ UNCHANGED <<pin_dir, pin_level>>
                 /\ pc' = "task_deleted"
    /\ delayed_ms' = 0
    /\ UNCHANGED <<temperature, humidity, budget, sensor, result, success_count,
                   error_count, readLocals, displayVars, wsVars, pulseVars, unitVars,
                   prev_tx, pinLog>>

(* vTaskDelay(pdMS_TO_TICKS(2000)) before the first read *)
TaskStartupDelay ==
    /\ pc = "startup_delay"
    /\ pc' = "loop"
    /\ delayed_ms' = delayed_ms + STARTUP_DELAY_MS
    /\ UNCHANGED <<temperature, humidity, pin_dir, pin_level, budget, sensor, result,
                   success_count, error_count, readLocals, displayVars, wsVars,
                   pulseVars, unitVars, gpio_ret, init_ret, prev_tx, pinLog>>

(* dht11_read entry: locals initialised, line set idle-high, 200 ms wait *)
ReadEnter ==
    /\ pc = "loop"
    /\ success_count + error_count < MaxReads
    /\ connection_timeout' = budget
    /\ waited' = 0
    /\ timeout_counter' = 0
    /\ received_data' = ClearedBuffer(received_data)
    /\ bit' = 0
    /\ delayed_ms' = 0
    /\ pin_level' = 1
    /\ events' = <<DelayEvent>>
    /\ entry_temperature' = temperature
    /\ entry_humidity' = humidity
    /\ \E s \in BOOLEAN : stuck_high' = s
    /\ tx' = NoFrame
    /\ exit_line' = 0
    /\ result' = NO_RESULT
    /\ pc' = "rd_attempt"
    /\ pin_ops' = <<SetLevel(1), DelayUs(STABILIZE_US)>>
    /\ ops_dir0' = pin_dir
    /\ UNCHANGED <<temperature, humidity, pin_dir, budget, sensor, success_count,
                   error_count, displayVars, wsVars, pulseVars, unitVars, gpio_ret,
                   init_ret, prev_tx>>


AttemptStart_NoCount ==
    /\ pc = "rd_attempt"
    /\ MayAttempt(timeout_counter, connection_timeout)
    /\ timeout_counter' = timeout_counter
    /\ pin_level' = 1
    /\ events' = Append(events, PulseEvent)
    /\ pc' = "rd_input"
    /\ pin_ops' = hold_low(START_HOLD_US)
    /\ ops_dir0' = pin_dir
    /\ UNCHANGED <<temperature, humidity, pin_dir, budget, sensor, connection_timeout,
                   waited, received_data, bit, result, exit_line,
                   success_count, error_count, entry_temperature,
                   entry_humidity, tx, stuck_high, displayVars, wsVars, pulseVars, unitVars, taskAux>>

(* while (timeout_counter < connection_timeout): next attempt, hold_low *)
AttemptStart ==
    /\ pc = "rd_attempt"
    /\ MayAttempt(timeout_counter, connection_timeout)
    /\ timeout_counter' = timeout_counter + 1
    /\ pin_level' = 1
    /\ events' = Append(events, PulseEvent)
    /\ pc' = "rd_input"
    /\ pin_ops' = hold_low(START_HOLD_US)
    /\ ops_dir0' = pin_dir
    /\ UNCHANGED <<temperature, humidity, pin_dir, budget, sensor, connection_timeout,
                   waited, received_data, bit, result, exit_line,
                   success_count, error_count, entry_temperature,
                   entry_humidity, tx, stuck_high, displayVars, wsVars, pulseVars, unitVars, taskAux>>

(* the loop condition fails: all attempts used *)
AttemptsOver ==
    /\ pc = "rd_attempt"
    /\ ~MayAttempt(timeout_counter, connection_timeout)
    /\ pc' = "rd_check"
    /\ UNCHANGED <<temperature, humidity, pin_dir, pin_level, budget, sensor, result,
                   success_count, error_count, readLocals, displayVars, wsVars, pulseVars, unitVars, taskAux, pinLog>>

(* gpio_set_direction(pin, GPIO_MODE_INPUT) *)
SwitchToInput ==
    /\ pc = "rd_input"
    /\ pin_dir' = GPIO_MODE_INPUT
    /\ pc' = "rd_phase1"
    /\ pin_ops' = Append(pin_ops, SetDirection(GPIO_MODE_INPUT))
    /\ ops_dir0' = ops_dir0
    /\ UNCHANGED <<temperature, humidity, pin_level, budget, sensor, result,
                   success_count, error_count, readLocals, displayVars, wsVars, pulseVars, unitVars, taskAux>>

PhasePc(p) == CASE p = 1 -> "rd_phase1" [] p = 2 -> "rd_phase2" [] OTHER -> "rd_phase3"
PhaseLevel_LowHighHigh(p) == IF p = 1 THEN 0 ELSE 1
PhaseLevel(p) == IF p = 2 THEN 1 ELSE 0
PhaseDelays(p) == IF stuck_high /\ PhaseLevel(p) = 0
                  THEN {HANDSHAKE_TIMEOUT + 1}
                  ELSE HandshakeDelays

(* one of the three waits of the handshake returns in time; after the      *)
(* third the loop is left with break and the sensor starts its frame       *)
PhaseOk(p) ==
    /\ pc = PhasePc(p)
    /\ \E d \in PhaseDelays(p) :
         LET w == HandshakeWait[d][PhaseLevel(p)] IN
           /\ w # 0 - 1
           /\ waited' = w
    /\ IF p = 3
       THEN /\ pc' = "rd_check"
            /\ \E f \in sensor : tx' = f
       ELSE /\ pc' = PhasePc(p + 1)
            /\ tx' = tx
    /\ pin_ops' = Append(pin_ops, WaitOp(PhaseLevel(p), TRUE))
    /\ ops_dir0' = ops_dir0
    /\ UNCHANGED <<temperature, humidity, pin_dir, pin_level, budget, sensor,
                   connection_timeout, timeout_counter, received_data, bit,
                   result, exit_line, success_count, error_count, events,
                   entry_temperature, entry_humidity, stuck_high,
                   displayVars, wsVars, pulseVars, unitVars, taskAux>>

(* a wait of the handshake times out: pin back to output, high, 200 ms,    *)
(* continue                                                                *)
PhaseTimeout(p) ==
    /\ pc = PhasePc(p)
    /\ \E d \in PhaseDelays(p) :
         LET w == HandshakeWait[d][PhaseLevel(p)] IN
           /\ w = 0 - 1
           /\ waited' = w
    /\ pin_dir' = GPIO_MODE_OUTPUT_OD
    /\ pin_level' = 1
    /\ events' = Append(events, DelayEvent)
    /\ pc' = "rd_attempt"
    /\ pin_ops' = Append(pin_ops, WaitOp(PhaseLevel(p), FALSE))
                    \o Cleanup \o <<DelayUs(STABILIZE_US)>>
    /\ ops_dir0' = ops_dir0
    /\ UNCHANGED <<temperature, humidity, budget, sensor, connection_timeout,
                   timeout_counter, received_data, bit, result, exit_line,
                   success_count, error_count, entry_temperature,
                   entry_humidity, tx, stuck_high, displayVars, wsVars, pulseVars, unitVars, taskAux>>

(* if (timeout_counter >= connection_timeout): connection failed *)
ConnectionFailed ==
    /\ pc = "rd_check"
    /\ Exhausted(timeout_counter, connection_timeout)
    /\ pin_dir' = GPIO_MODE_OUTPUT_OD
    /\ pin_level' = 1
    /\ result' = ReturnCode(141)
    /\ exit_line' = 141
    /\ pc' = "rd_return"
    /\ pin_ops' = pin_ops \o Cleanup
    /\ ops_dir0' = ops_dir0
    /\ UNCHANGED <<temperature, humidity, budget, sensor, connection_timeout,
                   timeout_counter, waited, received_data, bit, success_count,
                   error_count, events, entry_temperature, entry_humidity,
                   tx, stuck_high, displayVars, wsVars, pulseVars, unitVars, taskAux>>

StartDecode ==
    /\ pc = "rd_check"
    /\ ~Exhausted(timeout_counter, connection_timeout)
    /\ pc' = "rd_bits"
    /\ UNCHANGED <<temperature, humidity, pin_dir, pin_level, budget, sensor, result,
                   success_count, error_count, readLocals, displayVars, wsVars, pulseVars, unitVars, taskAux, pinLog>>

(* ---------------- the 40 bit slots ---------------- *)
BitRiseTimeout_Retry ==
    /\ pc = "rd_bits"
    /\ \E r \in RiseDelays :
         LET w == RiseWait[r] IN
           /\ w = 0 - 1
           /\ waited' = w
    /\ pin_dir' = GPIO_MODE_OUTPUT_OD
    /\ pin_level' = 1
    /\ events' = Append(events, DelayEvent)
    /\ pc' = "rd_attempt"
    /\ UNCHANGED <<temperature, humidity, budget, sensor, connection_timeout,
                   timeout_counter, received_data, bit, success_count,
                   error_count, result, exit_line, entry_temperature,
                   entry_humidity, tx, stuck_high, displayVars, wsVars,
                   pulseVars, unitVars, taskAux, pinLog>>

(* wait for the rise of the data pulse times out: line 149-153 *)
BitRiseTimeout ==
    /\ pc = "rd_bits"
    /\ \E r \in RiseDelays :
         LET w == RiseWait[r] IN
           /\ w = 0 - 1
           /\ waited' = w
    /\ pin_dir' = GPIO_MODE_OUTPUT_OD
    /\ pin_level' = 1
    /\ result' = ReturnCode(153)
    /\ exit_line' = 153
    /\ pc' = "rd_return"
    /\ pin_ops' = pin_ops \o Cleanup
    /\ ops_dir0' = ops_dir0
    /\ UNCHANGED <<temperature, humidity, budget, sensor, connection_timeout,
                   timeout_counter, received_data, bit, success_count,
                   error_count, events, entry_temperature, entry_humidity,
                   tx, stuck_high, displayVars, wsVars, pulseVars, unitVars, taskAux>>

(* the pulse is measured and decoded, the wait for the fall times out and  *)
(* the timeout is fatal: line 170-174                                      *)
BitFallTimeout ==
    /\ pc = "rd_bits"
    /\ \E r \in RiseDelays, h \in PulseWidths(TxBit(tx, bit)), f \in FallDelays :
         /\ RiseWait[r] # 0 - 1
         /\ received_data' = StoreBit(received_data, bit, DecodeBit(HighTime[h]))
         /\ FallWait[f] = 0 - 1
         /\ waited' = 0 - 1
    /\ FallTimeoutFatal(bit)
    /\ pin_dir' = GPIO_MODE_OUTPUT_OD
    /\ pin_level' = 1
    /\ result' = ReturnCode(174)
    /\ exit_line' = 174
    /\ pc' = "rd_return"
    /\ pin_ops' = pin_ops \o Cleanup
    /\ ops_dir0' = ops_dir0
    /\ UNCHANGED <<temperature, humidity, budget, sensor, connection_timeout,
                   timeout_counter, bit, success_count, error_count, events,
                   entry_temperature, entry_humidity, tx, stuck_high,
                   displayVars, wsVars, pulseVars, unitVars, taskAux>>

(* the bit slot completes: the next bit, or the end of the loops *)
BitDone ==
    /\ pc = "rd_bits"
    /\ \E r \in RiseDelays, h \in PulseWidths(TxBit(tx, bit)), f \in FallDelays :
         LET w == FallWait[f] IN
           /\ RiseWait[r] # 0 - 1
           /\ received_data' = StoreBit(received_data, bit, DecodeBit(HighTime[h]))
           /\ ~(w = 0 - 1 /\ FallTimeoutFatal(bit))
           /\ waited' = w
    /\ bit' = bit + 1
    /\ pc' = IF bit + 1 = FRAME_BITS THEN "rd_restore" ELSE "rd_bits"
    /\ UNCHANGED <<temperature, humidity, pin_dir, pin_level, budget, sensor,
                   connection_timeout, timeout_counter, result, exit_line,
                   success_count, error_count, events, entry_temperature,
                   entry_humidity, tx, stuck_high, displayVars, wsVars, pulseVars, unitVars, taskAux, pinLog>>

(* ---------------- after the loops: cleanup, checksum, store ---------------- *)
RestorePin_LevelOnly ==
    /\ pc = "rd_restore"
    /\ pin_level' = 1
    /\ pc' = "rd_crc"
    /\ UNCHANGED <<temperature, humidity, pin_dir, budget, sensor, result,
                   success_count, error_count, readLocals, displayVars, wsVars, pulseVars, unitVars, taskAux, pinLog>>
(* gpio_set_direction(OUTPUT_OD); gpio_set_level(1) after the loops *)
RestorePin ==
    /\ pc = "rd_restore"
    /\ pin_dir' = GPIO_MODE_OUTPUT_OD
    /\ pin_level' = 1
    /\ pc' = "rd_crc"
    /\ pin_ops' = pin_ops \o Cleanup
    /\ ops_dir0' = ops_dir0
    /\ UNCHANGED <<temperature, humidity, budget, sensor, result, success_count,
                   error_count, readLocals, displayVars, wsVars, pulseVars, unitVars, taskAux>>

ChecksumMatch ==
    /\ pc = "rd_crc"
    /\ ChecksumOk(received_data)
    /\ pc' = "rd_store_humidity"
    /\ UNCHANGED <<temperature, humidity, pin_dir, pin_level, budget, sensor, result,
                   success_count, error_count, readLocals, displayVars, wsVars, pulseVars, unitVars, taskAux, pinLog>>

ChecksumMismatch ==
    /\ pc = "rd_crc"
    /\ ~ChecksumOk(received_data)
    /\ result' = ReturnCode(201)
    /\ exit_line' = 201
    /\ pc' = "rd_return"
    /\ UNCHANGED <<temperature, humidity, pin_dir, pin_level, budget, sensor,
                   connection_timeout, timeout_counter, waited, received_data,
                   bit, success_count, error_count, events, entry_temperature,
                   entry_humidity, tx, stuck_high, displayVars, wsVars, pulseVars, unitVars, taskAux, pinLog>>

(* dht11->humidity = received_data[0] + received_data[1] / 10.0 *)
StoreHumidity ==
    /\ pc = "rd_store_humidity"
    /\ humidity' = HumidityOf(received_data)
    /\ pc' = "rd_store_temperature"
    /\ UNCHANGED <<temperature, pin_dir, pin_level, budget, sensor, result,
                   success_count, error_count, readLocals, displayVars, wsVars, pulseVars, unitVars, taskAux, pinLog>>

(* dht11->temperature = received_data[2] + received_data[3] / 10.0 *)
StoreTemperature ==
    /\ pc = "rd_store_temperature"
    /\ temperature' = TemperatureOf(received_data)
    /\ pc' = "rd_range"
    /\ UNCHANGED <<humidity, pin_dir, pin_level, budget, sensor, result,
                   success_count, error_count, readLocals, displayVars, wsVars, pulseVars, unitVars, taskAux, pinLog>>

(* the range test on the stored values *)
RangeCheck ==
    /\ pc = "rd_range"
    /\ IF OutOfRange(humidity, temperature)
       THEN /\ result' = ReturnCode(194)
            /\ exit_line' = 194
       ELSE /\ result' = ReturnCode(198)
            /\ exit_line' = 198
    /\ pc' = "rd_return"
    /\ UNCHANGED <<temperature, humidity, pin_dir, pin_level, budget, sensor,
                   connection_timeout, timeout_counter, waited, received_data,
                   bit, success_count, error_count, events, entry_temperature,
                   entry_humidity, tx, stuck_high, displayVars, wsVars, pulseVars, unitVars, taskAux, pinLog>>

(* dht11_read returns to dht11_task; its locals cease to exist *)
ReadReturn ==
    /\ pc = "rd_return"
    /\ pc' = "task_result"
    /\ connection_timeout' = 0
    /\ timeout_counter' = 0
    /\ waited' = 0
    /\ received_data' = StaleStack
    /\ bit' = 0
    /\ prev_tx' = IF result = ESP_OK THEN tx ELSE NoFrame
    /\ pin_ops' = <<>>
    /\ ops_dir0' = GPIO_MODE_RESET
    /\ exit_line' = 0
    /\ events' = <<>>
    /\ entry_temperature' = 0
    /\ entry_humidity' = 0
    /\ tx' = NoFrame
    /\ stuck_high' = FALSE
    /\ UNCHANGED <<temperature, humidity, pin_dir, pin_level, budget, sensor, result,
                   success_count, error_count, displayVars, wsVars, pulseVars, unitVars,
                   delayed_ms, gpio_ret, init_ret>>

(* if (result == ESP_OK) ... else ... vTaskDelay(1000) *)
TaskResult ==
    /\ pc = "task_result"
    /\ IF result = ESP_OK
       THEN /\ success_count' = success_count + 1
            /\ error_count' = error_count
            /\ pc' = "task_delay"
       ELSE /\ error_count' = error_count + 1
            /\ success_count' = success_count
            /\ pc' = "task_error_delay"
    /\ UNCHANGED <<temperature, humidity, pin_dir, pin_level, budget, sensor, result,
                   readLocals, displayVars, wsVars, pulseVars, unitVars, taskAux, pinLog>>

(* vTaskDelay(pdMS_TO_TICKS(1000)) of the error branch *)
TaskErrorDelay ==
    /\ pc = "task_error_delay"
    /\ pc' = "task_delay"
    /\ delayed_ms' = delayed_ms + ERROR_DELAY_MS
    /\ UNCHANGED <<temperature, humidity, pin_dir, pin_level, budget, sensor, result,
                   success_count, error_count, readLocals, displayVars, wsVars,
                   pulseVars, unitVars, gpio_ret, init_ret, prev_tx, pinLog>>

(* vTaskDelay(3000) at the end of the loop body *)
TaskDelay_Skipped ==
    /\ pc = "task_delay"
    /\ pc' = "loop"
    /\ UNCHANGED <<temperature, humidity, pin_dir, pin_level, budget, sensor, result,
                   success_count, error_count, readLocals, displayVars, wsVars,
                   pulseVars, unitVars, taskAux, pinLog>>

TaskDelay ==
    /\ pc = "task_delay"
    /\ pc' = "loop"
    /\ delayed_ms' = delayed_ms + LOOP_DELAY_MS
    /\ UNCHANGED <<temperature, humidity, pin_dir, pin_level, budget, sensor, result,
                   success_count, error_count, readLocals, displayVars, wsVars,
                   pulseVars, unitVars, gpio_ret, init_ret, prev_tx, pinLog>>

(* ---------------- the display loop of app_main ---------------- *)
DisplayReadTemperature ==
    /\ d_pc = "read_temperature"
    /\ d_temperature' = temperature
    /\ d_pc' = "read_humidity"
    /\ UNCHANGED <<pollerVars, d_humidity, wsVars, pulseVars, unitVars>>

DisplayReadHumidity ==
    /\ d_pc = "read_humidity"
    /\ d_humidity' = humidity
    /\ d_pc' = "show"
    /\ UNCHANGED <<pollerVars, d_temperature, wsVars, pulseVars, unitVars>>

(* snprintf + oled_show_combined_status + vTaskDelay(100) *)
DisplayShow ==
    /\ d_pc = "show"
    /\ d_pc' = "read_temperature"
    /\ d_temperature' = 0
    /\ d_humidity' = 0
    /\ UNCHANGED <<pollerVars, wsVars, pulseVars, unitVars>>

(* ---------------- handle_ws_req ---------------- *)
(* the request of the WebSocket handshake: method GET, return ESP_OK *)
WsHandshake ==
    /\ ws_pc = "idle"
    /\ ws_ret' = ESP_OK
    /\ ws_led_before' = led_state
    /\ ws_pc' = "return"
    /\ UNCHANGED <<pollerVars, displayVars, pulseVars, unitVars, ws_temperature,
                   ws_humidity, ws_frame, ws_buf, ws_out, ledVars, traffic>>

WsReceive_AnyLength ==
    /\ ws_pc = "idle"
    /\ \E f \in traffic, hdr \in {ESP_OK, ESP_FAIL}, mem \in BOOLEAN,
          body \in {ESP_OK, ESP_FAIL} :
         /\ ws_frame' = IF hdr = ESP_OK THEN f ELSE NoWsFrame
         /\ IF hdr # ESP_OK
            THEN /\ ws_ret' = hdr
                 /\ ws_buf' = <<>>
                 /\ ws_pc' = "return"
            ELSE IF f.type = HTTPD_WS_TYPE_TEXT
            THEN IF ~mem
                 THEN /\ ws_ret' = ESP_ERR_NO_MEM
                      /\ ws_buf' = <<>>
                      /\ ws_pc' = "return"
                 ELSE IF body # ESP_OK
                 THEN /\ ws_ret' = body
                      /\ ws_buf' = <<>>
                      /\ ws_pc' = "return"
                 ELSE /\ ws_ret' = NO_RESULT
                      /\ ws_buf' = f.payload \o <<NUL>>
                      /\ ws_pc' = "dispatch"
            ELSE /\ ws_ret' = ESP_OK
                 /\ ws_buf' = <<>>
                 /\ ws_pc' = "return"
    /\ ws_led_before' = led_state
    /\ UNCHANGED <<pollerVars, displayVars, pulseVars, unitVars, ws_temperature,
                   ws_humidity, ws_out, ledVars, traffic>>

(* a frame arrives: httpd_ws_recv_frame for the header, the test of type   *)
(* and length, calloc, httpd_ws_recv_frame for the payload, terminator     *)
WsReceive ==
    /\ ws_pc = "idle"
    /\ \E f \in traffic, hdr \in {ESP_OK, ESP_FAIL}, mem \in BOOLEAN,
          body \in {ESP_OK, ESP_FAIL} :
         /\ ws_frame' = IF hdr = ESP_OK THEN f ELSE NoWsFrame
         /\ IF hdr # ESP_OK
            THEN /\ ws_ret' = hdr
                 /\ ws_buf' = <<>>
                 /\ ws_pc' = "return"
            ELSE IF f.type = HTTPD_WS_TYPE_TEXT /\ Len(f.payload) > 0
            THEN IF ~mem
                 THEN /\ ws_ret' = ESP_ERR_NO_MEM
                      /\ ws_buf' = <<>>
                      /\ ws_pc' = "return"
                 ELSE IF body # ESP_OK
                 THEN /\ ws_ret' = body
                      /\ ws_buf' = <<>>
                      /\ ws_pc' = "return"
                 ELSE /\ ws_ret' = NO_RESULT
                      /\ ws_buf' = f.payload \o <<NUL>>
                      /\ ws_pc' = "dispatch"
            ELSE /\ ws_ret' = ESP_OK
                 /\ ws_buf' = <<>>
                 /\ ws_pc' = "return"
    /\ ws_led_before' = led_state
    /\ UNCHANGED <<pollerVars, displayVars, pulseVars, unitVars, ws_temperature,
                   ws_humidity, ws_out, ledVars, traffic>>

(* the branches ON, OFF, TOGGLE, STATUS and the final else *)
WsCommand ==
    /\ ws_pc = "dispatch"
    /\ Command(ws_buf) # "GET_DHT"
    /\ LET led == CASE Command(ws_buf) = "ON" -> led_control_set_state(TRUE)
                    [] Command(ws_buf) = "OFF" -> led_control_set_state(FALSE)
                    [] Command(ws_buf) = "TOGGLE" -> led_control_toggle(led_state)
                    [] OTHER -> [led_state |-> led_state, led_gpio |-> led_gpio]
       IN /\ led_state' = led.led_state
          /\ led_gpio' = led.led_gpio
    /\ ws_pc' = "reply"
    /\ UNCHANGED <<pollerVars, displayVars, pulseVars, unitVars, ws_temperature,
                   ws_humidity, wsLocals, traffic>>

(* the branch GET_DHT: get_dht11_data() *)
WsGetDht_SamplesSensor ==
    /\ ws_pc = "dispatch"
    /\ Command(ws_buf) = "GET_DHT"
    /\ ws_pc' = "read_temperature"
    /\ pin_dir' = GPIO_MODE_INPUT
    /\ UNCHANGED <<pc, temperature, humidity, pin_level, budget, sensor, result,
                   success_count, error_count, readLocals, taskAux, pinLog,
                   displayVars, pulseVars, unitVars, ws_temperature,
                   ws_humidity, wsLocals, ledVars, traffic>>

WsGetDht ==
    /\ ws_pc = "dispatch"
    /\ Command(ws_buf) = "GET_DHT"
    /\ ws_pc' = "read_temperature"
    /\ UNCHANGED <<pollerVars, displayVars, pulseVars, unitVars, ws_temperature,
                   ws_humidity, wsLocals, ledVars, traffic>>

(* the two arguments of snprintf are loaded one after the other *)
WsReadTemperature ==
    /\ ws_pc = "read_temperature"
    /\ ws_temperature' = temperature
    /\ ws_pc' = "read_humidity"
    /\ UNCHANGED <<pollerVars, displayVars, pulseVars, unitVars, ws_humidity, wsLocals,
                   ledVars, traffic>>

WsReadHumidity ==
    /\ ws_pc = "read_humidity"
    /\ ws_humidity' = humidity
    /\ ws_pc' = "send"
    /\ UNCHANGED <<pollerVars, displayVars, pulseVars, unitVars, ws_temperature, wsLocals,
                   ledVars, traffic>>

(* snprintf and httpd_ws_send_frame of "DHT:<temperature>:<humidity>"; a   *)
(* failed send is logged and changes nothing                               *)
WsSendDht ==
    /\ ws_pc = "send"
    /\ ws_out' = Append(ws_out, DhtResponse(ws_temperature, ws_humidity))
    /\ ws_pc' = "reply"
    /\ UNCHANGED <<pollerVars, displayVars, pulseVars, unitVars, ws_temperature,
                   ws_humidity, ws_frame, ws_buf, ws_ret, ws_led_before,
                   ledVars, traffic>>

(* free(buf); led_control_get_state(); the reply "LED:..." is sent *)
WsReplyLed ==
    /\ ws_pc = "reply"
    /\ ws_out' = Append(ws_out, LedResponse(led_state))
    /\ ws_buf' = <<>>
    /\ ws_ret' = ESP_OK
    /\ ws_pc' = "return"
    /\ UNCHANGED <<pollerVars, displayVars, pulseVars, unitVars, ws_temperature,
                   ws_humidity, ws_frame, ws_led_before, ledVars, traffic>>

(* handle_ws_req returns; its locals are gone *)
WsReturn ==
    /\ ws_pc = "return"
    /\ ws_pc' = "idle"
    /\ ws_temperature' = 0
    /\ ws_humidity' = 0
    /\ ws_frame' = NoWsFrame
    /\ ws_buf' = <<>>
    /\ ws_out' = <<>>
    /\ ws_ret' = NO_RESULT
    /\ ws_led_before' = FALSE
    /\ UNCHANGED <<pollerVars, displayVars, pulseVars, unitVars, ledVars, traffic>>

(* ---------------- one data pulse, measured and decoded ---------------- *)
(* lines 157-166 of dht11_read applied to a pulse of any width *)
MeasurePulse ==
    /\ \E h \in 0..MaxPulse :
         /\ pulse_width' = h
         /\ high_time' = measure_high(h)
         /\ decoded' = DecodeBit(measure_high(h))
    /\ UNCHANGED <<pollerVars, displayVars, wsVars, unitVars>>

(* one bit slot from the measurement on: the high time (lines 156-160),   *)
(* the decoded bit (163-165), the wait for the fall (168) and the test of  *)
(* line 169, for bit j of a byte                                           *)
SlotBits == {0, 6, 7}

DecodeSlot ==
    /\ \E h \in 0..MaxPulse :
         /\ pulse_width' = h
         /\ high_time' = measure_high(h)
         /\ decoded' = DecodeBit(measure_high(h))
    /\ \E f \in FallDelays, j \in SlotBits :
         /\ slot_j' = j
         /\ slot_waited' = FallWait[f]
         /\ slot_exit' = IF FallWait[f] = 0 - 1 /\ FallTimeoutFatal(j)
                         THEN ReturnCode(174)
                         ELSE NO_RESULT
    /\ UNCHANGED <<pollerVars, displayVars, wsVars, waitVars, led_log, extVars>>

(* ---------------- the WiFi station and its event handler ---------------- *)
(* everything outside the WiFi component *)
firmwareVars == <<pollerVars, displayVars, wsVars, pulseVars, waitVars, slotVars,
                  led_log>>

WIFI_EVENT_STA_START == <<"WIFI_EVENT", "STA_START">>
WIFI_EVENT_STA_CONNECTED == <<"WIFI_EVENT", "STA_CONNECTED">>
WIFI_EVENT_STA_DISCONNECTED == <<"WIFI_EVENT", "STA_DISCONNECTED">>
IP_EVENT_STA_GOT_IP == <<"IP_EVENT", "STA_GOT_IP">>

(* wifi_event_handler: the number of esp_wifi_connect calls it makes *)
wifi_event_handler_StartOnly(event) ==
    IF event = WIFI_EVENT_STA_START THEN 1 ELSE 0
wifi_event_handler(event) ==
    IF event = WIFI_EVENT_STA_START THEN 1
    ELSE IF event = WIFI_EVENT_STA_DISCONNECTED THEN 1
    ELSE 0

(* the event loop calls the handler with an event; a connect puts the      *)
(* station into connecting, and the event decides the state otherwise      *)
WifiDispatch(event, link) ==
    /\ Len(wifi_log) < MaxWifiEvents
    /\ wifi_log' = Append(wifi_log, event)
    /\ wifi_connects' = wifi_connects + wifi_event_handler(event)
    /\ wifi_link' = IF wifi_event_handler(event) > 0 THEN "connecting" ELSE link
    /\ UNCHANGED <<firmwareVars, clientVars, oledVars>>

(* esp_wifi_start of wifi_init_sta: the driver posts STA_START *)
WifiStart ==
    /\ wifi_link = "stopped"
    /\ WifiDispatch(WIFI_EVENT_STA_START, "idle")

(* the access point accepts the station *)
WifiConnected ==
    /\ wifi_link = "connecting"
    /\ WifiDispatch(WIFI_EVENT_STA_CONNECTED, "associated")

(* DHCP gives an address *)
WifiGotIp ==
    /\ wifi_link = "associated"
    /\ WifiDispatch(IP_EVENT_STA_GOT_IP, "connected")

(* a connect attempt fails, or the link is lost *)
WifiDisconnected ==
    /\ wifi_link \in {"connecting", "associated", "connected"}
    /\ WifiDispatch(WIFI_EVENT_STA_DISCONNECTED, "idle")

(* ---------------- the callbacks of the web client ---------------- *)
(* a callback of the page runs to completion: client becomes next, which   *)
(* creates no socket and no timer beyond the bounds                        *)
ClientStep(next) ==
    /\ next.created <= MaxSockets
    /\ next.next_interval <= MaxIntervals + 1
    /\ client' = next
    /\ UNCHANGED <<firmwareVars, wifiVars, oledVars>>

(* the server accepts the socket this.websocket holds / an earlier one *)
SocketOpens ==
    /\ client.websocket = CONNECTING
    /\ ClientStep(onopen([client EXCEPT !.websocket = OPEN]))
OldSocketOpens ==
    /\ client.old_connecting > 0
    /\ ClientStep(onopen([client EXCEPT !.old_connecting = @ - 1,
                                        !.old_open = @ + 1]))

(* a socket fails to connect or its connection is lost *)
SocketCloses ==
    /\ client.websocket \in {CONNECTING, OPEN}
    /\ ClientStep(onclose([client EXCEPT !.websocket = CLOSED]))
OldSocketCloses ==
    \/ /\ client.old_connecting > 0
       /\ ClientStep(onclose([client EXCEPT !.old_connecting = @ - 1]))
    \/ /\ client.old_open > 0
       /\ ClientStep(onclose([client EXCEPT !.old_open = @ - 1]))

(* the setTimeout of handleReconnection fires: connectWebSocket *)
ReconnectTimeout ==
    /\ client.reconnect_timeouts > 0
    /\ ClientStep(connectWebSocket([client EXCEPT !.reconnect_timeouts = @ - 1]))

(* the setTimeout of onopen fires: sendCommand('STATUS') and               *)
(* sendCommand('GET_DHT')                                                  *)
StatusTimeout ==
    /\ client.status_timeouts > 0
    /\ ClientStep(sendCommand(sendCommand([client EXCEPT !.status_timeouts = @ - 1],
                                          "STATUS"), "GET_DHT"))

(* the setTimeout of the constructor fires *)
StartupTimeout ==
    /\ client.startup_timeout
    /\ LET c == [client EXCEPT !.startup_timeout = FALSE] IN
         ClientStep(IF c.websocket = OPEN THEN startAutoRefresh(c) ELSE c)

(* a button of the page: its click handler calls sendCommand; the buttons  *)
(* are disabled while the page shows Desconectado                          *)
UserCommand ==
    /\ client.ui_connected # "disconnected"
    /\ \E command \in ClientCommands : ClientStep(sendCommand(client, command))

UserToggleAutoRefresh == ClientStep(toggleAutoRefresh(client))

(* an active setInterval timer fires: sendCommand('GET_DHT') *)
AutoRefreshTick ==
    /\ client.intervals # {}
    /\ ClientStep(sendCommand(client, "GET_DHT"))

(* ---------------- the LED component, call by call ---------------- *)
LedCall(name, led) ==
    /\ Len(led_log) < MaxLedCalls
    /\ led_state' = led.led_state
    /\ led_gpio' = led.led_gpio
    /\ led_log' = Append(led_log, name)
    /\ UNCHANGED <<pollerVars, displayVars, pulseVars, waitVars, slotVars, ws_pc,
                   ws_temperature, ws_humidity, wsLocals, traffic, extVars>>

LedInit == LedCall(<<"led_control_init">>, led_control_init)
LedSetState ==
    \E state \in BOOLEAN :
        LedCall(<<"led_control_set_state", state>>, led_control_set_state(state))
LedToggle == LedCall(<<"led_control_toggle">>, led_control_toggle(led_state))

(* ---------------- one call of wait_for_state, sample by sample -------- *)
(* wait_for_state(dht11, state, timeout) is entered: count = 0 *)
WaitCall ==
    /\ w_pc = "idle"
    /\ \E state \in {0, 1}, timeout \in WaitTimeouts :
         /\ w_state' = state
         /\ w_timeout' = timeout
    /\ w_count' = 0
    /\ w_ret' = 0
    /\ w_samples' = 0
    /\ w_hits' = 0
    /\ w_last' = NoLevel
    /\ w_pc' = "sample"
    /\ UNCHANGED <<pollerVars, displayVars, wsVars, pulseVars, slotVars, led_log, extVars>>

(* one evaluation of the loop condition, on a line that may read either    *)
(* level at every sample, and the loop body or the return that follows     *)
WaitSample ==
    /\ w_pc = "sample"
    /\ \E level \in {0, 1} :
         /\ w_last' = level
         /\ w_samples' = w_samples + 1
         /\ w_hits' = IF level = w_state THEN w_hits + 1 ELSE w_hits
         /\ IF level # w_state
            THEN IF WaitExpired(w_count, w_timeout)
                 THEN /\ w_ret' = 0 - 1
                      /\ w_pc' = "done"
                      /\ w_count' = w_count
                 ELSE /\ w_count' = w_count + 1
                      /\ w_pc' = "sample"
                      /\ w_ret' = w_ret
            ELSE /\ w_ret' = w_count
                 /\ w_pc' = "done"
                 /\ w_count' = w_count
    /\ UNCHANGED <<pollerVars, displayVars, wsVars, pulseVars, slotVars, led_log,
                   extVars, w_state, w_timeout>>

(* the caller has the return value; the locals are gone *)
WaitReturn ==
    /\ w_pc = "done"
    /\ w_pc' = "idle"
    /\ w_state' = 0
    /\ w_timeout' = 0
    /\ w_count' = 0
    /\ w_ret' = 0
    /\ w_samples' = 0
    /\ w_hits' = 0
    /\ w_last' = NoLevel
    /\ UNCHANGED <<pollerVars, displayVars, wsVars, pulseVars, slotVars, led_log, extVars>>

(* ---------------- specifications ---------------- *)
NextRead ==
    \/ TaskInit
    \/ TaskStartupDelay
    \/ ReadEnter
    \/ AttemptStart
    \/ AttemptsOver
    \/ SwitchToInput
    \/ \E p \in 1..3 : PhaseOk(p)
    \/ \E p \in 1..3 : PhaseTimeout(p)
    \/ ConnectionFailed
    \/ StartDecode
    \/ BitRiseTimeout
    \/ BitFallTimeout
    \/ BitDone
    \/ RestorePin
    \/ ChecksumMatch
    \/ ChecksumMismatch
    \/ StoreHumidity
    \/ StoreTemperature
    \/ RangeCheck
    \/ ReadReturn
    \/ TaskResult
    \/ TaskErrorDelay
    \/ TaskDelay

NextReaders ==
    \/ DisplayReadTemperature
    \/ DisplayReadHumidity
    \/ DisplayShow
    \/ WsHandshake
    \/ WsReceive
    \/ WsGetDht
    \/ WsReadTemperature
    \/ WsReadHumidity
    \/ WsSendDht
    \/ WsReplyLed
    \/ WsReturn

Next == NextRead \/ NextReaders

(* the firmware: poller, display loop and WebSocket handler *)
Spec == Init /\ [][Next]_vars

(* dht11_read called with any attempt budget, no concurrent readers *)
SpecRead == InitRead /\ [][NextRead]_vars

(* the same, the task that runs dht11_read being scheduled again and again *)
SpecReadFair == InitRead /\ [][NextRead]_vars /\ WF_vars(NextRead)

(* handle_ws_req on every modelled frame, one request at a time *)
NextWs ==
    \/ WsHandshake
    \/ WsReceive
    \/ WsCommand
    \/ WsGetDht
    \/ WsReadTemperature
    \/ WsReadHumidity
    \/ WsSendDht
    \/ WsReplyLed
    \/ WsReturn
SpecWs == InitWs /\ [][NextWs]_vars

(* wait_for_state on every line, for the timeouts the driver uses and     *)
(* the smallest ones                                                       *)
NextWait == WaitCall \/ WaitSample \/ WaitReturn
SpecWait == Init /\ [][NextWait]_vars

(* the measuring loop and the threshold on every pulse width *)
NextPulse == MeasurePulse \/ DecodeSlot
SpecPulse == Init /\ [][NextPulse]_vars

(* the LED component under any sequence of calls of its functions *)
(* the WiFi station under any sequence of events of the driver *)
NextWifi == WifiStart \/ WifiConnected \/ WifiGotIp \/ WifiDisconnected
SpecWifi == Init /\ [][NextWifi]_vars

(* the web page: its sockets, timers and user, callback by callback *)
NextClient ==
    \/ SocketOpens
    \/ OldSocketOpens
    \/ SocketCloses
    \/ OldSocketCloses
    \/ ReconnectTimeout
    \/ StatusTimeout
    \/ StartupTimeout
    \/ UserCommand
    \/ UserToggleAutoRefresh
    \/ AutoRefreshTick
SpecClient == Init /\ [][NextClient]_vars

NextLed == LedInit \/ LedSetState \/ LedToggle
SpecLed == Init /\ [][NextLed]_vars

(* ---------------- the OLED framebuffer and its drawing routines -------- *)
SCREEN_WIDTH == 72
SCREEN_HEIGHT == 40

(* oled_draw_pixel with a bounds test that lets x = SCREEN_WIDTH through *)
oled_draw_pixel_OffByOne(buf, x, y) ==
    IF x < 0 \/ x > SCREEN_WIDTH \/ y < 0 \/ y >= SCREEN_HEIGHT
    THEN buf
    ELSE LET page == y \div 8
             b == y % 8
         IN buf \cup {<<x + page * SCREEN_WIDTH, b>>}

(* oled_draw_pixel: return outside the screen, else                       *)
(* oled_buffer[x + page * SCREEN_WIDTH] |= (1 << bit)                     *)
oled_draw_pixel(buf, x, y) ==
    IF x < 0 \/ x >= SCREEN_WIDTH \/ y < 0 \/ y >= SCREEN_HEIGHT
    THEN buf
    ELSE LET page == y \div 8
             b == y % 8
         IN buf \cup {<<x + page * SCREEN_WIDTH, b>>}

(* the buffer together with the calls of oled_draw_pixel made on it *)
Canvas(buf, req) == [buf |-> buf, req |-> req]

DrawPixel(d, x, y) == Canvas(oled_draw_pixel(d.buf, x, y), d.req \cup {<<x, y>>})

(* oled_draw_pixel for each point of a set: every call ORs its bit into   *)
(* the buffer, so the calls leave the buffer with the bits each one sets  *)
DrawPixels(d, pts) ==
    Canvas(d.buf \cup UNION {oled_draw_pixel({}, p[1], p[2]) : p \in pts},
           d.req \cup pts)

IntAbs(n) == IF n < 0 THEN 0 - n ELSE n

(* The drawing routines reach the buffer through oled_draw_pixel alone:   *)
(* each is the set of points it calls oled_draw_pixel with.               *)

(* the while (1) loop of oled_draw_line *)
RECURSIVE LineLoop(_, _, _, _, _, _, _, _, _)
LineLoop(x0, y0, x1, y1, dx, dy, sx, sy, err) ==
    IF x0 = x1 /\ y0 = y1
    THEN {<<x0, y0>>}
    ELSE LET e2 == 2 * err
             stepX == e2 > 0 - dy
             err1 == IF stepX THEN err - dy ELSE err
             nx == IF stepX THEN x0 + sx ELSE x0
             stepY == e2 < dx
             err2 == IF stepY THEN err1 + dx ELSE err1
             ny == IF stepY THEN y0 + sy ELSE y0
         IN {<<x0, y0>>} \cup
            UNION {LineLoop(n[1], n[2], x1, y1, dx, dy, sx, sy, n[3]) :
                   n \in {<<nx, ny, err2>>}}

oled_draw_line(x0, y0, x1, y1) ==
    LET dx == IntAbs(x1 - x0)
        dy == IntAbs(y1 - y0)
        sx == IF x0 < x1 THEN 1 ELSE 0 - 1
        sy == IF y0 < y1 THEN 1 ELSE 0 - 1
    IN LineLoop(x0, y0, x1, y1, dx, dy, sx, sy, dx - dy)

oled_draw_rect(x, y, w, h) ==
    oled_draw_line(x, y, x + w, y)
        \cup oled_draw_line(x + w, y, x + w, y + h)
        \cup oled_draw_line(x + w, y + h, x, y + h)
        \cup oled_draw_line(x, y + h, x, y)

oled_draw_fill_rect(x, y, w, h) == (x..(x + w - 1)) \X (y..(y + h - 1))

(* the glyphs font_5x7 may hold: the columns and rows whose bit is set *)
GlyphCell == (0..4) \X (0..6)
Glyphs == {{<<0, 0>>, <<4, 6>>}, GlyphCell}

(* the lengths of the printable texts handed to the screen *)
TextLens == {11, 13}

(* the for loop of oled_draw_text, from character i on, for a text of len *)
(* printable characters that all have the same glyph                      *)
RECURSIVE TextLoop(_, _, _, _, _)
TextLoop(x, y, len, glyph, i) ==
    IF i >= len
    THEN {}
    ELSE LET char_x == x + i * 6
         IN IF char_x >= SCREEN_WIDTH
            THEN {}
            ELSE {<<char_x + g[1], y + g[2]>> : g \in glyph}
                     \cup TextLoop(x, y, len, glyph, i + 1)

oled_draw_text(x, y, len, glyph) == TextLoop(x, y, len, glyph, 0)

oled_draw_text_centered(line, len, glyph) ==
    LET text_width == len * 6
        num == SCREEN_WIDTH - text_width
        x == IF num < 0 THEN 0 - ((0 - num) \div 2) ELSE num \div 2
    IN oled_draw_text(IF x < 0 THEN 0 ELSE x, line * 10, len, glyph)

(* oled_show_combined_status after its oled_clear *)
oled_show_combined_status(button_pressed, led, ip_len, dht_len, glyph) ==
    oled_draw_text_centered(0, ip_len, glyph)
        \cup oled_draw_text(0, 10, 4, glyph)
        \cup oled_draw_text(30, 10, 3, glyph)
        \cup (IF led THEN oled_draw_fill_rect(50, 9, 8, 8)
                     ELSE oled_draw_rect(50, 9, 8, 8))
        \cup oled_draw_text(0, 20, 6, glyph)
        \cup oled_draw_text(36, 20, IF button_pressed THEN 5 ELSE 4, glyph)
        \cup (IF button_pressed THEN oled_draw_fill_rect(75, 19, 4, 4)
                                ELSE oled_draw_rect(75, 19, 4, 4))
        \cup oled_draw_text_centered(3, dht_len, glyph)

(* the coordinates single pixels are requested at: both ends of int, the  *)
(* edges of the screen and the borders of its pages                       *)
PixelXs == {0 - 2147483647 - 1, 0 - 1, 0, 71, 72, 2147483647}
PixelYs == {0 - 2147483647 - 1, 0 - 1, 0, 7, 8, 39, 40, 2147483647}

OledStep(d) ==
    /\ oled_buffer' = d.buf
    /\ oled_requests' = d.req
    /\ UNCHANGED <<firmwareVars, wifiVars, clientVars>>

(* oled_clear: memset(oled_buffer, 0, sizeof(oled_buffer)) *)
OledClear == OledStep(Canvas({}, {}))

(* one call of oled_draw_pixel *)
OledDrawPixel ==
    /\ Cardinality(oled_requests) < MaxPixels
    /\ \E x \in PixelXs, y \in PixelYs :
         OledStep(DrawPixel(Canvas(oled_buffer, oled_requests), x, y))

(* one pass of the display loop: oled_show_combined_status *)
OledShowCombinedStatus ==
    \E button_pressed \in BOOLEAN, ip_len \in TextLens, dht_len \in TextLens,
       glyph \in Glyphs :
        OledStep(DrawPixels(Canvas({}, {}),
                            oled_show_combined_status(button_pressed, led_state,
                                                      ip_len, dht_len, glyph)))

NextOled == OledClear \/ OledDrawPixel \/ OledShowCombinedStatus \/ LedToggle
SpecOled == Init /\ [][NextOled]_vars

(* ---------------- properties ---------------- *)
AtReturn == pc = "rd_return"
FrameReceived == AtReturn /\ bit = FRAME_BITS

(* what the specification says of a frame <<b0, b1, b2, b3, b4>>, in tenths *)
SumMatches(fr) == fr[5] = (fr[1] + fr[2] + fr[3] + fr[4]) % 256
HumidityTenths(fr) == 10 * fr[1] + fr[2]
TemperatureTenths(fr) == 10 * fr[3] + fr[4]
InRange(fr) == HumidityTenths(fr) <= 1000 /\ TemperatureTenths(fr) <= 500

(* the Readings a validated exchange can commit, as <<temperature, humidity>> *)
CommittedPairs ==
    {<<0, 0>>} \cup
    {<<TemperatureTenths(Frames[f]), HumidityTenths(Frames[f])>> :
        f \in {g \in FrameIds : SumMatches(Frames[g]) /\ InRange(Frames[g])}}

(* C1: whenever dht11_read returns a failure, temperature and humidity of  *)
(* the sensor struct equal their values at the start of the call.          *)
C1_FailedReadKeepsReading ==
    (AtReturn /\ result # ESP_OK) =>
        (temperature = entry_temperature /\ humidity = entry_humidity)

(* C2: whenever dht11_read is not between its two stores and the range     *)
(* test, the stored Reading has humidity <= 100.0 and temperature <= 50.0  *)
(* and is the initial Reading or the decode of a checksum-valid frame.     *)
C2_StoredReadingValid ==
    (pc \notin {"rd_store_temperature", "rd_range"}) =>
        /\ humidity <= 1000
        /\ temperature <= 500
        /\ <<temperature, humidity>> \in CommittedPairs

(* C3: a call whose last handshake attempt saw its three transitions in    *)
(* time (at least one attempt made, last wait not timed out) does not      *)
(* return through the connection-failed exit of line 141.                  *)
C3_HandshakeSuccessIsDecoded ==
    (AtReturn /\ exit_line = 141) =>
        (timeout_counter = 0 \/ waited = 0 - 1)

(* C4: at every return of dht11_read the pin is in open-drain output       *)
(* direction and its level is high.                                        *)
C4_PinIdleOnReturn ==
    AtReturn => (pin_dir = GPIO_MODE_OUTPUT_OD /\ pin_level = 1)

C4_Witness ==
    /\ AtReturn
    /\ exit_line = 153
    /\ bit = 17
    /\ pin_dir = GPIO_MODE_OUTPUT_OD
    /\ pin_level = 1

(* C5: every (temperature, humidity) pair the display loop shows or the    *)
(* GET_DHT handler sends is the initial pair or the pair of one validated  *)
(* exchange.                                                               *)
C5_ReadersSeeCommittedPairs ==
    /\ (d_pc = "show") => (<<d_temperature, d_humidity>> \in CommittedPairs)
    /\ (ws_pc = "send") => (<<ws_temperature, ws_humidity>> \in CommittedPairs)

(* C6: the error returned for a bit timeout (exits of line 153 and 174)    *)
(* differs from the error returned for handshake exhaustion (line 141).    *)
C6_BitTimeoutHasOwnCode ==
    (AtReturn /\ exit_line \in {153, 174}) => (result # ReturnCode(141))

(* C6 amended: handshake exhaustion and both bit timeouts return the same  *)
(* ESP_ERR_TIMEOUT, and no other exit returns it.                          *)
C6_TimeoutsShareOneCode ==
    AtReturn => ((result = ESP_ERR_TIMEOUT) <=> (exit_line \in {141, 153, 174}))

C6_Witness ==
    /\ AtReturn
    /\ exit_line = 174
    /\ result = ESP_ERR_TIMEOUT
    /\ success_count + error_count >= 1

StartPulses == {i \in 1..Len(events) : events[i] = PulseEvent}

(* C7: on a line that stays high, with a budget N >= 1, dht11_read returns *)
(* the timeout error of line 141 after exactly N start pulses, each        *)
(* directly preceded by a 200 ms wait.                                     *)
C7_StuckLineUsesAllAttempts ==
    (AtReturn /\ stuck_high /\ connection_timeout >= 1) =>
        /\ exit_line = 141
        /\ result = ESP_ERR_TIMEOUT
        /\ Cardinality(StartPulses) = connection_timeout
        /\ \A i \in StartPulses : i > 1 /\ events[i - 1] = DelayEvent

C7_Witness ==
    /\ AtReturn
    /\ stuck_high
    /\ connection_timeout >= 2
    /\ Cardinality(StartPulses) = connection_timeout

C9_BadChecksumRejected ==
    (FrameReceived /\ ~SumMatches(received_data)) =>
        /\ result = ESP_ERR_INVALID_CRC
        /\ temperature = entry_temperature
        /\ humidity = entry_humidity

C9_Witness ==
    /\ FrameReceived
    /\ received_data = Frames[7]
    /\ result = ESP_ERR_INVALID_CRC
    /\ entry_humidity = 500
    /\ humidity = 500

(* C10: a timed-out wait for the fall of a bit slot is survived only by    *)
(* bit 39: when decoding goes on after slot k with waited = -1, k is 39.   *)
C10_FallTimeoutOnlyToleratedAtLastBit ==
    (pc \in {"rd_bits", "rd_restore"} /\ bit >= 1 /\ waited = 0 - 1) =>
        (bit = FRAME_BITS)

(* C11: a pulse measured as exactly 35 ticks decodes as 0, one of 36 as 1; *)
(* for every measured duration in 0..100 the bit is 1 iff duration > 35.   *)
C11_ThresholdIsStrict ==
    /\ high_time \in 0..100
    /\ decoded \in {0, 1}
    /\ (decoded = 1) <=> (high_time > 35)
    /\ (high_time = 35) => (decoded = 0)
    /\ (high_time = 36) => (decoded = 1)

C11_Witness ==
    /\ pulse_width = 35
    /\ high_time = 35
    /\ decoded = 0

(* C12: for every received frame whose checksum matches, dht11_read        *)
(* returns the out-of-range error iff humidity > 100.0 or temperature >    *)
(* 50.0 and success otherwise; 100.0 and 50.0 exactly are accepted.        *)
C12_RangeErrorIffOutOfRange ==
    (FrameReceived /\ SumMatches(received_data)) =>
        /\ (result = ESP_ERR_INVALID_RESPONSE) <=>
               (HumidityTenths(received_data) > 1000
                    \/ TemperatureTenths(received_data) > 500)
        /\ (result = ESP_OK) <=>
               (HumidityTenths(received_data) <= 1000
                    /\ TemperatureTenths(received_data) <= 500)

C12_Witness ==
    /\ FrameReceived
    /\ received_data = <<100, 0, 50, 0, 150>>
    /\ result = ESP_OK
    /\ humidity = 1000
    /\ temperature = 500

(* C13: handshake completed on the first attempt of a budget of 3, frame   *)
(* 0x32 0x00 0x17 0x05 0x4E received with in-spec pulses: dht11_read       *)
(* returns success with humidity 50.0 and temperature 23.5.                *)
C13_EndToEndFrame ==
    (/\ AtReturn
     /\ connection_timeout = 3
     /\ timeout_counter = 1
     /\ tx # NoFrame
     /\ Frames[IF tx = NoFrame THEN 1 ELSE tx] = <<50, 0, 23, 5, 78>>
     /\ bit = FRAME_BITS) =>
        /\ result = ESP_OK
        /\ humidity = 500
        /\ temperature = 235

C13_Witness ==
    /\ AtReturn
    /\ connection_timeout = 3
    /\ timeout_counter = 1
    /\ tx = 1
    /\ bit = FRAME_BITS
    /\ result = ESP_OK
    /\ humidity = 500
    /\ temperature = 235

(* C14: the frame buffer starts all-zero on every call, so the frame       *)
(* decoded and the Reading stored depend only on the waveform of that      *)
(* call; two consecutive successful reads of the same waveform yield the   *)
(* same Reading.                                                           *)
C14_SameWaveformSameReading ==
    /\ FrameReceived => (received_data = Frames[tx])
    /\ (AtReturn /\ result = ESP_OK) =>
           /\ humidity = HumidityTenths(Frames[tx])
           /\ temperature = TemperatureTenths(Frames[tx])
    /\ (AtReturn /\ result = ESP_OK /\ prev_tx = tx) =>
           /\ temperature = entry_temperature
           /\ humidity = entry_humidity

C14_Witness ==
    /\ AtReturn
    /\ result = ESP_OK
    /\ success_count = 1
    /\ prev_tx = 6
    /\ tx = 6
    /\ entry_temperature = 495
    /\ temperature = 495
    /\ entry_humidity = 995
    /\ humidity = 995

(* C15: whenever dht11_task is about to call dht11_read, at least 2000 ms  *)
(* of task delay have elapsed since dht11_init or since the return of the  *)
(* previous dht11_read, after a success as well as after a failure.        *)
C15_ReadsSpacedTwoSeconds ==
    (pc = "loop") =>
        /\ delayed_ms >= 2000
        /\ (success_count + error_count = 0) => (delayed_ms = 2000)
        /\ (success_count + error_count > 0 /\ result = ESP_OK) =>
               (delayed_ms = 3000)
        /\ (success_count + error_count > 0 /\ result # ESP_OK) =>
               (delayed_ms = 4000)

C15_Witness ==
    /\ pc = "loop"
    /\ error_count = 1
    /\ success_count = 0
    /\ result = ESP_ERR_TIMEOUT
    /\ delayed_ms = 4000

(* C16: dht11_init returns success iff gpio_config succeeds and then the   *)
(* line is driven high; when gpio_config fails its error is returned, the  *)
(* pin is not driven, the task ends and stays ended, dht11_read is never   *)
(* called and the Reading keeps its initial value.                         *)
C16_InitFailureIsFinal ==
    /\ (init_ret # NO_RESULT) =>
           /\ init_ret = gpio_ret
           /\ (init_ret = ESP_OK) <=> (gpio_ret = ESP_OK)
    /\ (pc = "startup_delay") =>
           /\ init_ret = ESP_OK
           /\ pin_dir = GPIO_MODE_INPUT_OUTPUT_OD
           /\ pin_level = 1
    /\ (init_ret \notin {NO_RESULT, ESP_OK}) =>
           /\ pc = "task_deleted"
           /\ pin_dir = GPIO_MODE_RESET
           /\ pin_level = 0
           /\ success_count + error_count = 0
           /\ result = NO_RESULT
           /\ events = <<>>
           /\ temperature = 0
           /\ humidity = 0
    /\ (pc = "task_deleted") => (init_ret \notin {NO_RESULT, ESP_OK})

C16_Witness ==
    /\ pc = "task_deleted"
    /\ gpio_ret = ESP_ERR_INVALID_ARG
    /\ init_ret = ESP_ERR_INVALID_ARG
    /\ pin_dir = GPIO_MODE_RESET

(* C17: once the handshake of a call has succeeded no start pulse and no   *)
(* attempt follows in that call; a timed-out wait inside the bit loops     *)
(* that leaves the bit index in place ends the call at once with the       *)
(* timeout error, and the exit of line 153 is taken before bit 40.         *)
C17_NoRetryAfterHandshake ==
    /\ []((AtReturn /\ exit_line = 153) =>
              (result = ESP_ERR_TIMEOUT /\ bit < FRAME_BITS /\ tx # NoFrame))
    /\ [][(tx # NoFrame /\ tx' # NoFrame) =>
              (events' = events /\ timeout_counter' = timeout_counter)]_vars
    /\ [][(pc = "rd_bits" /\ waited' = 0 - 1 /\ bit' = bit) =>
              (/\ pc' = "rd_return"
               /\ result' = ESP_ERR_TIMEOUT
               /\ received_data' \in {received_data,
                                      StoreBit(received_data, bit, 1)})]_vars

C17_Witness ==
    /\ AtReturn
    /\ exit_line = 153
    /\ result = ESP_ERR_TIMEOUT
    /\ bit = 20
    /\ timeout_counter = 1
    /\ connection_timeout = 3
    /\ Cardinality(StartPulses) = 1

(* C18: once the command of a received text frame has been applied, a      *)
(* payload that is exactly ON left the LED on, exactly OFF left it off,    *)
(* exactly TOGGLE inverted it, and every other payload (STATUS, GET_DHT,   *)
(* anything unrecognised, whatever its case) left it as it was.            *)
C18_CommandSemantics ==
    (ws_pc = "reply") =>
        /\ (ws_frame.payload = CMD_ON) => led_state
        /\ (ws_frame.payload = CMD_OFF) => ~led_state
        /\ (ws_frame.payload = CMD_TOGGLE) => (led_state = ~ws_led_before)
        /\ (ws_frame.payload \notin {CMD_ON, CMD_OFF, CMD_TOGGLE}) =>
               (led_state = ws_led_before)

LedReplies ==
    {i \in 1..Len(ws_out) : ws_out[i] \in {"LED:ENCENDIDO", "LED:APAGADO"}}

OneDecimal(v) == ToString(v \div 10) \o "." \o ToString(v % 10)

(* the Readings the sensor struct holds after initialisation or after the  *)
(* two stores of a checksum-valid frame, as <<temperature, humidity>>      *)
StoredPairs ==
    {<<0, 0>>} \cup
    {<<TemperatureTenths(Frames[f]), HumidityTenths(Frames[f])>> :
        f \in {g \in FrameIds : SumMatches(Frames[g])}}
ReadingFrames ==
    {"DHT:" \o OneDecimal(p[1]) \o ":" \o OneDecimal(p[2]) : p \in StoredPairs}

(* C20: GET_DHT is answered with one frame DHT:<temperature>:<humidity>    *)
(* that carries a Reading of the sensor struct, sent before the LED status *)
(* reply, and the LED state is as it was when the command arrived.         *)
C20_GetDhtCarriesReading ==
    /\ (ws_pc = "reply" /\ ws_frame.payload = CMD_GET_DHT) =>
           /\ Len(ws_out) = 1
           /\ ws_out[1] \in ReadingFrames
           /\ led_state = ws_led_before
    /\ (ws_pc = "return" /\ ws_ret = ESP_OK /\ ws_frame.payload = CMD_GET_DHT) =>
           /\ Len(ws_out) = 2
           /\ ws_out[1] \in ReadingFrames
           /\ ws_out[2] \in {"LED:ENCENDIDO", "LED:APAGADO"}
           /\ led_state = ws_led_before

(* C22: wait_for_state samples once per 1-tick delay and returns the       *)
(* number of delays made before the first sample that reads the target, a  *)
(* value in 0..timeout; it returns -1 iff none of the first timeout + 1    *)
(* samples reads the target; it changes neither pin direction nor level.   *)
C22_WaitForStateContract ==
    /\ (w_pc \in {"sample", "done"}) =>
           /\ w_count \in 0..w_timeout
           /\ w_samples <= w_timeout + 1
    /\ (w_pc = "sample") => (w_samples = w_count /\ w_hits = 0)
    /\ (w_pc = "done") =>
           /\ w_ret \in (0 - 1)..w_timeout
           /\ w_samples = w_count + 1
           /\ (w_ret >= 0) =>
                  (w_ret = w_count /\ w_hits = 1 /\ w_last = w_state)
           /\ (w_ret = 0 - 1) <=> (w_hits = 0 /\ w_samples = w_timeout + 1)
           /\ w_ret = IF w_hits = 1 /\ w_samples - 1 <= w_timeout
                      THEN w_samples - 1
                      ELSE 0 - 1
    /\ pin_dir = GPIO_MODE_RESET
    /\ pin_level = 0

C22_Witness ==
    /\ w_pc = "done"
    /\ w_timeout = 100
    /\ w_state = 0
    /\ w_samples = 101
    /\ w_hits = 1
    /\ w_ret = 100

(* bit q (0..39) of a frame, counting from the most significant bit of    *)
(* its first byte                                                          *)
BitOf(fr, q) == (fr[(q \div 8) + 1] \div (2 ^ (7 - (q % 8)))) % 2

(* C23: after k bits have been decoded, bit (7 - q mod 8) of frame byte    *)
(* (q div 8) is the q-th transmitted bit for every q < k and 0 for q >= k; *)
(* after 40 bits the received frame is the five transmitted bytes in the   *)
(* order humidity, humidity fraction, temperature, temperature fraction,   *)
(* checksum.                                                               *)
C23_BitsMsbFirst ==
    /\ (pc \in {"rd_bits", "rd_restore"} /\ tx # NoFrame) =>
           \A q \in 0..39 :
               BitOf(received_data, q) =
                   IF q < bit THEN BitOf(Frames[tx], q) ELSE 0
    /\ FrameReceived =>
           \A i \in 1..5 : received_data[i] = Frames[tx][i]

C23_Witness ==
    /\ pc = "rd_bits"
    /\ tx = 6
    /\ bit = 12
    /\ received_data = <<74, 240, 0, 0, 0>>

(* ---------------- C24 ---------------- *)
(* the operations every attempt opens with: hold_low(18000) and the switch *)
(* of the pin to input                                                     *)
AttemptOpening ==
    <<SetLevel(0), DelayUs(18000), SetLevel(1), DelayUs(40),
      SetDirection(GPIO_MODE_INPUT)>>

IsWaitOp(op) == op[1] = "wait_for_state"

AttemptBegun == pin_ops # <<>> /\ pin_ops[1] = SetLevel(0)

(* C24: in every handshake attempt the pin operations are, in this order,  *)
(* drive low, hold 18000 ticks, release high, wait 40 ticks, switch to     *)
(* input; the line is sampled only after all five, never before the start  *)
(* pulse of the attempt has completed.                                     *)
C24_StartPulseBeforeSampling ==
    /\ (pc \in {"rd_input", "rd_phase1", "rd_phase2", "rd_phase3"}) => AttemptBegun
    /\ AttemptBegun =>
         /\ Len(pin_ops) >= 4
         /\ \A i \in 1..Len(pin_ops) :
              /\ (i <= 5) => pin_ops[i] = AttemptOpening[i]
              /\ IsWaitOp(pin_ops[i]) => i > 5
         /\ (pc # "rd_input") => Len(pin_ops) >= 5
    /\ ~AttemptBegun => \A i \in 1..Len(pin_ops) : ~IsWaitOp(pin_ops[i])

C24_Witness ==
    /\ pc = "rd_phase2"
    /\ timeout_counter = 2
    /\ pin_ops = AttemptOpening \o <<WaitOp(0, TRUE)>>

(* ---------------- C28 ---------------- *)
IsSetLevel(op) == op[1] = "gpio_set_level"
IsSetDirection(op) == op[1] = "gpio_set_direction"

(* the direction of the pin after the first n operations of the log *)
RECURSIVE DirectionAfter(_)
DirectionAfter(n) ==
    IF n = 0 THEN ops_dir0
    ELSE IF IsSetDirection(pin_ops[n]) THEN pin_ops[n][2]
    ELSE DirectionAfter(n - 1)

InRead ==
    pc \in {"rd_attempt", "rd_input", "rd_phase1", "rd_phase2", "rd_phase3",
            "rd_check", "rd_bits", "rd_restore", "rd_crc", "rd_store_humidity",
            "rd_store_temperature", "rd_range", "rd_return"}

(* C28: within dht11_read the level of the pin is never written while its  *)
(* direction is input: after the switch to input of an attempt every later *)
(* write of the level (retry cleanup, exit cleanup, next start pulse) comes *)
(* after a switch back to open-drain output.                               *)
C28_NoLevelWriteWhileInput ==
    /\ \A i \in 1..Len(pin_ops) :
         IsSetLevel(pin_ops[i]) => DirectionAfter(i - 1) # GPIO_MODE_INPUT
    /\ InRead => pin_dir = DirectionAfter(Len(pin_ops))
    /\ (pc = "rd_attempt") => pin_dir # GPIO_MODE_INPUT

C28_Witness ==
    /\ pc = "rd_input"
    /\ timeout_counter = 2
    /\ ops_dir0 = GPIO_MODE_OUTPUT_OD
    /\ pin_ops = hold_low(START_HOLD_US)

(* ---------------- C25 ---------------- *)
(* the waits of the current attempt, and the three a handshake consists of *)
AttemptWaits == SelectSeq(pin_ops, IsWaitOp)
HandshakeWaits == <<WaitOp(0, TRUE), WaitOp(1, TRUE), WaitOp(0, TRUE)>>
TimedOut(op) == IsWaitOp(op) /\ op[3] = FALSE
RetryCleanup ==
    <<SetDirection(GPIO_MODE_OUTPUT_OD), SetLevel(1), DelayUs(200000)>>

(* the attempt left the loop through the break after the third wait *)
HandshakeSucceeded == pc = "rd_check" /\ tx # NoFrame
(* the attempt was given up after a wait that timed out *)
HandshakeAborted ==
    /\ pc = "rd_attempt"
    /\ AttemptBegun

C25_AttemptShape ==
    /\ AttemptBegun =>
         /\ Len(AttemptWaits) <= 3
         /\ \A i \in 1..Len(AttemptWaits) :
              /\ AttemptWaits[i][2] = HandshakeWaits[i][2]
              /\ (i < Len(AttemptWaits)) => AttemptWaits[i] = HandshakeWaits[i]
    /\ (pc = "rd_check") =>
         /\ HandshakeSucceeded <=> pin_ops = AttemptOpening \o HandshakeWaits
         /\ HandshakeSucceeded => waited \in 0..100
         /\ ~HandshakeSucceeded =>
              \/ ~AttemptBegun
              \/ TimedOut(AttemptWaits[Len(AttemptWaits)])
    /\ (pc \in {"rd_bits", "rd_restore"}) =>
         SubSeq(pin_ops, 1, 8) = AttemptOpening \o HandshakeWaits
    /\ HandshakeAborted =>
         /\ \E n \in 1..3 :
              pin_ops = AttemptOpening
                          \o SubSeq(HandshakeWaits, 1, n - 1)
                          \o <<WaitOp(HandshakeWaits[n][2], FALSE)>>
                          \o RetryCleanup
         /\ waited = 0 - 1
         /\ pin_dir = GPIO_MODE_OUTPUT_OD
         /\ pin_level = 1
         /\ events[Len(events)] = DelayEvent

C25_RetryStartsWithPulse ==
    (HandshakeAborted /\ timeout_counter < connection_timeout) =>
        /\ pc' = "rd_input"
        /\ timeout_counter' = timeout_counter + 1
        /\ pin_ops' = SubSeq(AttemptOpening, 1, 4)
        /\ events' = Append(events, PulseEvent)

(* C25: a handshake attempt succeeds iff the line is read low within 100   *)
(* ticks, then high within 100, then low within 100, in that order; when   *)
(* one of the three waits times out the remaining waits of the attempt are *)
(* skipped, the pin is put back to output and driven high, 200 ms elapse,  *)
(* and the next attempt, if the budget allows one, starts with a new start *)
(* pulse.                                                                  *)
C25_HandshakeAttempt ==
    /\ []C25_AttemptShape
    /\ [][C25_RetryStartsWithPulse]_vars

C25_Witness ==
    /\ pc = "rd_input"
    /\ timeout_counter = 2
    /\ waited = 0 - 1
    /\ events[Len(events) - 1] = DelayEvent
    /\ pin_ops = SubSeq(AttemptOpening, 1, 4)

(* ---------------- C29 ---------------- *)
(* C29: called with an attempt budget of 0 or less, dht11_read emits no    *)
(* start pulse and never samples the line; it returns the timeout error    *)
(* after the initial 200 ms wait, leaves the pin open-drain output and     *)
(* high, and leaves the stored reading as it was.                          *)
C29_NoBudgetNoAttempt ==
    (InRead /\ connection_timeout <= 0) =>
        /\ StartPulses = {}
        /\ timeout_counter = 0
        /\ events = <<DelayEvent>>
        /\ \A i \in 1..Len(pin_ops) :
             ~IsWaitOp(pin_ops[i]) /\ pin_ops[i] # SetLevel(0)
        /\ SubSeq(pin_ops, 1, 2) = <<SetLevel(1), DelayUs(200000)>>
        /\ pc \in {"rd_attempt", "rd_check", "rd_return"}
        /\ temperature = entry_temperature
        /\ humidity = entry_humidity
        /\ AtReturn =>
             /\ result = ESP_ERR_TIMEOUT
             /\ exit_line = 141
             /\ pin_ops = <<SetLevel(1), DelayUs(200000),
                            SetDirection(GPIO_MODE_OUTPUT_OD), SetLevel(1)>>
             /\ pin_dir = GPIO_MODE_OUTPUT_OD
             /\ pin_level = 1

C29_Witness ==
    /\ AtReturn
    /\ connection_timeout = 0 - 1
    /\ result = ESP_ERR_TIMEOUT
    /\ events = <<DelayEvent>>

(* ---------------- C26 ---------------- *)
(* C26: the measured high duration of a data pulse never exceeds 100: the  *)
(* measurement stops at the cap of 100 ticks even if the line is still     *)
(* high, a pulse that reaches the cap decodes as 1, and reaching the cap   *)
(* is not an error: the slot fails only when the wait for the fall that    *)
(* follows times out.                                                      *)
C26_HighTimeCapped ==
    /\ high_time \in 0..100
    /\ high_time = IF pulse_width < 100 THEN pulse_width ELSE 100
    /\ (pulse_width >= 100) => decoded = 1
    /\ slot_exit \in {NO_RESULT, ESP_ERR_TIMEOUT}
    /\ (slot_exit = ESP_ERR_TIMEOUT) => slot_waited = 0 - 1
    /\ (slot_waited \in 0..70) => slot_exit = NO_RESULT

C26_Witness ==
    /\ pulse_width = 120
    /\ high_time = 100
    /\ decoded = 1
    /\ slot_j = 0
    /\ slot_waited = 70
    /\ slot_exit = NO_RESULT

(* ---------------- C27 ---------------- *)
(* a step of the display loop or of the WebSocket handler *)
ReaderStep == displayVars' # displayVars \/ wsVars' # wsVars
(* the pin, the log of its operations and the position of the poller *)
sensorVars == <<pc, pin_dir, pin_level, pin_ops, ops_dir0, events, readLocals>>

C27_ReadersLeaveSensorAlone ==
    /\ ReaderStep => UNCHANGED sensorVars
    /\ (sensorVars' # sensorVars) => UNCHANGED <<displayVars, wsVars>>
    /\ (~InRead /\ InRead') => (pc = "loop" /\ pc' = "rd_attempt" /\ ~ReaderStep)

(* C27: at most one dht11_read is in progress at any time and the sensor   *)
(* pin is driven or sampled by the polling task only: no step of the       *)
(* display loop or of the WebSocket handler, GET_DHT included, operates on *)
(* the pin or starts a read, whether or not a read is running.             *)
C27_SinglePinOwner == [][C27_ReadersLeaveSensorAlone]_vars

C27_Witness ==
    /\ pc = "rd_phase2"
    /\ pin_dir = GPIO_MODE_INPUT
    /\ ws_pc = "read_humidity"
    /\ d_pc = "read_humidity"

(* ---------------- C30 ---------------- *)
(* the state of the LED after the first n calls of the log, by the         *)
(* documented meaning of each call                                         *)
RECURSIVE LedAfter(_)
LedAfter(n) ==
    IF n = 0 THEN FALSE
    ELSE CASE led_log[n][1] = "led_control_init" -> FALSE
           [] led_log[n][1] = "led_control_set_state" -> led_log[n][2]
           [] OTHER -> ~LedAfter(n - 1)

(* C30: after led_control_init and any sequence of led_control_set_state   *)
(* and led_control_toggle calls, the state led_control_get_state returns   *)
(* equals the level last written to the LED GPIO (on = 1, off = 0), and    *)
(* right after led_control_init the state is off.                          *)
C30_LedStateIsGpioLevel ==
    /\ led_state <=> (led_gpio = 1)
    /\ led_gpio \in {0, 1}
    /\ led_state = LedAfter(Len(led_log))
    /\ (led_log # <<>> /\ led_log[Len(led_log)] = <<"led_control_init">>) =>
         (led_state = FALSE /\ led_gpio = 0)

C30_Witness ==
    /\ led_log = <<<<"led_control_init">>, <<"led_control_set_state", FALSE>>,
                   <<"led_control_toggle">>, <<"led_control_toggle">>>>
    /\ led_state = FALSE
    /\ led_gpio = 0

(* ---------------- C21 ---------------- *)
Outcomes ==
    {ESP_OK, ESP_ERR_TIMEOUT, ESP_ERR_INVALID_CRC, ESP_ERR_INVALID_RESPONSE}

AttemptsAllowed == IF connection_timeout > 0 THEN connection_timeout ELSE 0
AttemptsLeft == AttemptsAllowed - timeout_counter

(* the number of steps dht11_read can still take: one per remaining bit    *)
(* slot and statement after the handshake, five per remaining attempt      *)
StepsLeft ==
    CASE pc = "rd_return" -> 1
      [] pc = "rd_range" -> 2
      [] pc = "rd_store_temperature" -> 3
      [] pc = "rd_store_humidity" -> 4
      [] pc = "rd_crc" -> 5
      [] pc = "rd_restore" -> 6
      [] pc = "rd_bits" -> 7 + (40 - bit)
      [] pc = "rd_check" -> 48
      [] pc = "rd_phase3" -> 50 + 5 * AttemptsLeft
      [] pc = "rd_phase2" -> 51 + 5 * AttemptsLeft
      [] pc = "rd_phase1" -> 52 + 5 * AttemptsLeft
      [] pc = "rd_input" -> 53 + 5 * AttemptsLeft
      [] pc = "rd_attempt" -> 49 + 5 * AttemptsLeft
      [] OTHER -> 0

C21_BoundedWork ==
    /\ AtReturn => result \in Outcomes
    /\ InRead =>
         /\ timeout_counter \in 0..AttemptsAllowed
         /\ Cardinality(StartPulses) = timeout_counter
         /\ Len(events) <= 1 + 2 * AttemptsAllowed
         /\ Len(AttemptWaits) <= 3
         /\ waited \in (0 - 1)..100
         /\ bit \in 0..40
         /\ StepsLeft \in 1..(49 + 5 * AttemptsAllowed)
    /\ \A d \in HandshakeDelays, lvl \in {0, 1} : HandshakeWait[d][lvl] \in (0 - 1)..100
    /\ \A d \in RiseDelays : RiseWait[d] \in (0 - 1)..70
    /\ \A d \in FallDelays : FallWait[d] \in (0 - 1)..70
    /\ \A h \in DOMAIN HighTime : HighTime[h] \in 0..100

C21_EveryStepCounts == InRead => StepsLeft' < StepsLeft

(* C21: dht11_read terminates for every behaviour of the line and every    *)
(* attempt budget and returns success, timeout, checksum invalid or        *)
(* response out of range; the samples and delays it performs are bounded   *)
(* by the attempt budget and the timeouts of its phases.                   *)
C21_ReadTerminates ==
    /\ []C21_BoundedWork
    /\ [][C21_EveryStepCounts]_vars
    /\ InRead ~> AtReturn
    /\ AtReturn ~> ~InRead

C21_Witness ==
    /\ AtReturn
    /\ connection_timeout = 3
    /\ timeout_counter = 3
    /\ ~stuck_high
    /\ events = <<DelayEvent, PulseEvent, DelayEvent, PulseEvent, DelayEvent,
                  PulseEvent, DelayEvent>>
    /\ result = ESP_ERR_TIMEOUT

(* ---------------- C31 ---------------- *)
(* a frame whose header was received and that fails the test of line 119 *)
Ignored(f) ==
    /\ f # NoWsFrame
    /\ (f.type # "TEXT" \/ Len(f.payload) = 0)

C31_IgnoredFrameAtReturn ==
    (ws_pc # "idle" /\ Ignored(ws_frame)) =>
        /\ ws_pc = "return"
        /\ ws_ret = ESP_OK
        /\ ws_out = <<>>
        /\ ws_buf = <<>>
        /\ led_state = ws_led_before

C31_IgnoredFrameStep ==
    (Ignored(ws_frame) \/ Ignored(ws_frame')) =>
        UNCHANGED <<led_state, led_gpio, temperature, humidity>>

(* C31: a WebSocket frame that is not of text type or has length 0 changes *)
(* neither the LED state nor the published reading, produces no reply      *)
(* frame, and the handler returns success.                                 *)
C31_IgnoredFrameHasNoEffect ==
    /\ []C31_IgnoredFrameAtReturn
    /\ [][C31_IgnoredFrameStep]_vars

C31_Witness ==
    /\ ws_pc = "return"
    /\ ws_frame = BinaryFrame(CMD_ON)
    /\ ws_ret = ESP_OK
    /\ ws_out = <<>>
    /\ led_state = FALSE

(* ---------------- C32 ---------------- *)
(* the events of the log that are a station start or a disconnect *)
ConnectEvents ==
    {i \in 1..Len(wifi_log) :
        wifi_log[i] \in {WIFI_EVENT_STA_START, WIFI_EVENT_STA_DISCONNECTED}}

C32_ConnectPerEvent ==
    /\ wifi_connects = Cardinality(ConnectEvents)
    /\ (wifi_log # <<>>) => wifi_link \in {"connecting", "associated", "connected"}
    /\ (wifi_log # <<>> /\ Len(wifi_log) \in ConnectEvents) => wifi_link = "connecting"

C32_ConnectStep ==
    /\ (wifi_log' # wifi_log /\ wifi_log'[Len(wifi_log')] = IP_EVENT_STA_GOT_IP)
          => wifi_connects' = wifi_connects
    /\ (wifi_log' # wifi_log
        /\ wifi_log'[Len(wifi_log')] \in {WIFI_EVENT_STA_START,
                                         WIFI_EVENT_STA_DISCONNECTED})
          => wifi_connects' = wifi_connects + 1

(* C32: every station-start event and every station-disconnected event is *)
(* answered by one connect attempt, with no bound on the retries, so after *)
(* any sequence of disconnects a connect attempt is pending; a got-IP      *)
(* event triggers no connect attempt.                                      *)
C32_WifiReconnects ==
    /\ []C32_ConnectPerEvent
    /\ [][C32_ConnectStep]_vars

C32_Witness ==
    /\ Len(wifi_log) = 8
    /\ wifi_log[3] = IP_EVENT_STA_GOT_IP
    /\ \A i \in 4..8 : wifi_log[i] = WIFI_EVENT_STA_DISCONNECTED
    /\ wifi_connects = 6
    /\ wifi_link = "connecting"

(* ---------------- C33 ---------------- *)
(* C33: web client reconnection is bounded: between two successful opens   *)
(* of the WebSocket the client starts at most maxReconnectAttempts (5) new *)
(* connection attempts, whatever other activity of the page happens        *)
(* meanwhile (commands, the auto-refresh timer); the attempt counter is    *)
(* reset to 0 on every successful open.                                    *)
C33_ReconnectsBounded ==
    /\ client.since_open <= maxReconnectAttempts
    /\ client.reconnectAttempts \in 0..maxReconnectAttempts

(* ---------------- C35 ---------------- *)
(* the sockets of the page that are connecting or open *)
LiveSockets ==
    client.old_connecting + client.old_open
      + (IF client.websocket \in {CONNECTING, OPEN} THEN 1 ELSE 0)

(* C35: the web client has at most one WebSocket that is connecting or     *)
(* open at any time, under every interleaving of close events, scheduled   *)
(* reconnects, user commands and auto-refresh ticks.                       *)
C35_OneLiveSocket == LiveSockets <= 1

(* ---------------- C34 ---------------- *)
(* C34: after any sequence of startAutoRefresh, stopAutoRefresh and        *)
(* toggleAutoRefresh calls at most one auto-refresh timer is active,       *)
(* isAutoRefresh is true iff a timer is active, and toggleAutoRefresh      *)
(* always flips between the two states.                                    *)
C34_OneRefreshTimer ==
    /\ Cardinality(client.intervals) <= 1
    /\ client.isAutoRefresh <=> (client.intervals # {})
    /\ client.intervals =
         IF client.autoRefreshInterval = 0 THEN {} ELSE {client.autoRefreshInterval}
    /\ LET t == toggleAutoRefresh(client) IN
         /\ t.isAutoRefresh = ~client.isAutoRefresh
         /\ Cardinality(t.intervals) = IF client.isAutoRefresh THEN 0 ELSE 1
    /\ stopAutoRefresh(client).intervals = {}
    /\ Cardinality(startAutoRefresh(client).intervals) = 1

C34_Witness ==
    /\ client.isAutoRefresh
    /\ client.autoRefreshInterval = 2
    /\ client.intervals = {2}
    /\ ~client.startup_timeout
    /\ client.last.command = "GET_DHT"
    /\ client.last.sent

(* ---------------- C36 ---------------- *)
C36_SendCommandStep ==
    (client'.last # client.last \/ client'.created # client.created) =>
        /\ (client'.last.sent /\ client'.last # client.last) =>
              /\ client.websocket = OPEN
              /\ client'.created = client.created
        /\ (client'.last # client.last /\ ~client'.last.sent) =>
              /\ client'.last.readyState # OPEN
              /\ client'.ui_connected = "disconnected"
              /\ client'.created > client.created
              /\ client'.websocket = CONNECTING

(* C36: sendCommand transmits a command only when the WebSocket is OPEN;   *)
(* in every other state the command is not transmitted and not kept for    *)
(* later, the page is marked disconnected and a new connection attempt is  *)
(* started.                                                                *)
C36_SendOnlyWhenOpen ==
    /\ [](/\ client.last.sent <=> (client.last.readyState = OPEN)
          /\ (client.last # NoCall /\ ~client.last.sent) => client.last.reconnect
          /\ \A command \in ClientCommands \cup {"STATUS"} :
               LET c == sendCommand(client, command) IN
                 /\ c.last.command = command
                 /\ c.last.sent <=> (client.websocket = OPEN)
                 /\ (client.websocket = OPEN) => c.created = client.created
                 /\ (client.websocket # OPEN) =>
                       /\ c.created = client.created + 1
                       /\ c.websocket = CONNECTING
                       /\ c.ui_connected = "disconnected")
    /\ [][C36_SendCommandStep]_vars

C36_Witness ==
    /\ client.last = [command |-> "GET_DHT", readyState |-> CLOSED,
                      sent |-> FALSE, reconnect |-> TRUE]
    /\ client.websocket = OPEN
    /\ client.ui_connected = "connected"
    /\ client.status_timeouts = 2

(* ---- C37 ---- *)
OnScreen(p) == p[1] \in 0..71 /\ p[2] \in 0..39

(* the bit a pixel of the screen occupies *)
PixelBit(p) == <<p[1] + (p[2] \div 8) * 72, p[2] % 8>>

(* C37: oled_draw_pixel never writes outside the 72x40 framebuffer: every *)
(* bit set in the buffer lies in cells 0..359, a call with x outside      *)
(* 0..71 or y outside 0..39 leaves the buffer as it was, and a call       *)
(* inside sets exactly bit (y mod 8) of cell x + (y div 8)*72; so the     *)
(* buffer holds exactly the bits of the on-screen pixels requested since  *)
(* it was cleared, the status screen's requests at x >= 72 included       *)
C37_PixelsStayInBuffer ==
    /\ \A e \in oled_buffer : e[1] \in 0..359 /\ e[2] \in 0..7
    /\ oled_buffer = {PixelBit(p) : p \in {q \in oled_requests : OnScreen(q)}}

(* the status screen has been drawn: it has set bits of the buffer and has *)
(* asked for pixels of its button mark at x >= 72, rows 19..23             *)
C37_Witness ==
    /\ oled_buffer # {}
    /\ Cardinality(oled_requests) > MaxPixels
    /\ \E p \in oled_requests : p[1] >= 72 /\ p[2] \in 19..23
    /\ \E p \in oled_requests : OnScreen(p) /\ PixelBit(p)[1] >= 288

============================================================================
